---- MODULE Spec2Model ----
(***************************************************************************)
(* Model of the merge engine of pdf-consolidator (src/core/merge_service.py *)
(* with the entity model of src/core/models.py and the validator of        *)
(* src/core/pdf_probe.py).  The codec (pypdf), the file system and the     *)
(* caller's callbacks are the environment: a file's behaviour under the    *)
(* codec is fixed by its kind, I/O outcomes are chosen when they happen.   *)
(***************************************************************************)
EXTENDS Integers, Sequences, FiniteSets, TLC

\* ---------------------------------------------------------------- bounds
MaxFiles == 2
MaxPages == 2

\* ------------------------------------------------------------- vocabulary
PENDING == "PENDING"
READY == "READY"
PROCESSING == "PROCESSING"
MERGED == "MERGED"
SKIPPED == "SKIPPED"
ENCRYPTED == "ENCRYPTED"
CORRUPT == "CORRUPT"
NOT_PDF == "NOT_PDF"
ERROR == "ERROR"

FileStatus ==
  {PENDING, READY, PROCESSING, MERGED, SKIPPED, ENCRYPTED, CORRUPT, NOT_PDF, ERROR}

SKIP == "SKIP"
PROMPT_EACH == "PROMPT_EACH"
SINGLE_PASSWORD == "SINGLE_PASSWORD"

EncryptionHandlingMode == {SKIP, PROMPT_EACH, SINGLE_PASSWORD}

\* Python's None, for the optional string fields and for Optional[int].
None == "None"
NoCount == -1

\* The codec's view of a file: what PdfReader does with it.
\*   ok        a readable, unencrypted document
\*   enc       encrypted, the password "good" opens it
\*   encEmpty  encrypted with an empty user password (readable without one)
\*   corrupt   has the magic marker, malformed inside
\*   notpdf    exists, no magic marker
\*   missing   no such file
ReadableKinds == {"ok", "enc", "encEmpty"}
FileKinds == ReadableKinds \cup {"corrupt", "notpdf", "missing"}

\* Page counts vary for plain documents; an encrypted document has one page.
FileProfiles ==
  [kind : {"ok"}, pages : 1..MaxPages]
    \cup [kind : {"enc", "encEmpty"}, pages : {1}]
    \cup [kind : FileKinds \ ReadableKinds, pages : {0}]

\* What validation can meet besides: a file with the magic marker on which
\* the codec raises an error that is not its malformed-document error.
ProbeProfiles == FileProfiles \cup {[kind |-> "faulty", pages |-> 0]}

Passwords == {"good", "bad"}

\* The prompt callback's answer: (password, use_for_all, cancelled).  A
\* cancelled answer's other two components are not read.
Answers ==
  [password : Passwords, use_for_all : BOOLEAN, cancelled : {FALSE}]
    \cup {[password |-> "bad", use_for_all |-> FALSE, cancelled |-> TRUE]}

\* -------------------------------------------------------- src/core/models.py
\* QueuedPDF as the dataclass constructs it (file_name, size, mtime are the
\* file's identity: the entity's position in `files`).
NewQueuedPDF ==
  [status |-> PENDING, page_count |-> NoCount, status_message |-> "",
   skip_reason |-> "", sha256_hash |-> None, is_encrypted |-> FALSE,
   password_provided |-> FALSE]

\* A test that lets a later run retry the entities skipped as encrypted.
is_valid_for_merge_RetriesEncrypted(e) == e.status \in {PENDING, READY, ENCRYPTED}

\* A filter that lets the entities excluded by the caller through.
is_valid_for_merge_AlsoSkipped(e) == e.status \in {PENDING, READY, SKIPPED}

is_valid_for_merge(e) == e.status \in {PENDING, READY}

status_display(e) ==
  LET base == CASE e.status = PENDING -> "Pending"
                [] e.status = READY -> "Ready"
                [] e.status = PROCESSING -> "Processing..."
                [] e.status = MERGED -> "Merged"
                [] e.status = SKIPPED -> "Skipped"
                [] e.status = ENCRYPTED -> "Encrypted"
                [] e.status = CORRUPT -> "Corrupt"
                [] e.status = NOT_PDF -> "Not a PDF"
                [] e.status = ERROR -> "Error"
                [] OTHER -> "Unknown"
  IN IF e.status_message # "" THEN base \o ": " \o e.status_message ELSE base

\* A mapping without the fallback text for an Encrypted entity that has no
\* recorded reason.
manifest_status_NoFallback(e) ==
  CASE e.status = MERGED -> "Merged"
    [] e.status = SKIPPED ->
         "Skipped - " \o (IF e.skip_reason # "" THEN e.skip_reason ELSE "user choice")
    [] e.status = ENCRYPTED -> "Encrypted - " \o e.skip_reason
    [] e.status = CORRUPT -> "Skipped - corrupt/unreadable"
    [] e.status = NOT_PDF -> "Skipped - not a PDF"
    [] e.status = ERROR ->
         "Error - " \o (IF e.status_message # "" THEN e.status_message ELSE "unknown")
    [] e.status \in {PENDING, READY} -> "Pending"
    [] OTHER -> status_display(e)

manifest_status(e) ==
  CASE e.status = MERGED -> "Merged"
    [] e.status = SKIPPED ->
         "Skipped - " \o (IF e.skip_reason # "" THEN e.skip_reason ELSE "user choice")
    [] e.status = ENCRYPTED ->
         IF e.skip_reason # "" THEN "Encrypted - " \o e.skip_reason
         ELSE "Encrypted - skipped"
    [] e.status = CORRUPT -> "Skipped - corrupt/unreadable"
    [] e.status = NOT_PDF -> "Skipped - not a PDF"
    [] e.status = ERROR ->
         "Error - " \o (IF e.status_message # "" THEN e.status_message ELSE "unknown")
    [] e.status \in {PENDING, READY} -> "Pending"
    [] OTHER -> status_display(e)

\* MergeManifestEntry.to_manifest_line (157-165): the fields of the block
\* that vary.  `if self.page_count` is false for None and for 0;
\* `if include_hash and self.sha256_hash` is false for None.
to_manifest_line(entry, include_hash) ==
  [index |-> entry.index,
   pages |-> IF entry.page_count = NoCount \/ entry.page_count = 0 THEN "?"
             ELSE ToString(entry.page_count),
   status |-> entry.status,
   sha256 |-> IF include_hash /\ entry.sha256_hash # None THEN entry.sha256_hash
              ELSE None]

\* A report file not written yet.
NoReport == [summary |-> << >>, manifest |-> << >>]

\* MergeResult() with the dataclass defaults.
NewMergeResult ==
  [success |-> FALSE, merged_count |-> 0, skipped_count |-> 0, error_count |-> 0,
   total_pages |-> 0, error_message |-> "", manifest_entries |-> << >>]

\* ----------------------------------------------------- src/core/pdf_probe.py
is_pdf_file(f) == f.kind \notin {"notpdf", "missing"}

\* (is_valid, page_count, error_message)
probe_pdf(f) ==
  IF f.kind = "missing" THEN
    [is_valid |-> FALSE, page_count |-> NoCount, error_message |-> "File not found"]
  ELSE IF ~is_pdf_file(f) THEN
    [is_valid |-> FALSE, page_count |-> NoCount, error_message |-> "Not a PDF file"]
  ELSE IF f.kind = "enc" THEN
    \* decrypt("") / authenticate("") fails
    [is_valid |-> FALSE, page_count |-> NoCount, error_message |-> "PDF is encrypted"]
  ELSE IF f.kind = "corrupt" THEN
    [is_valid |-> FALSE, page_count |-> NoCount,
     error_message |-> "PDF is corrupt or unreadable"]
  ELSE IF f.kind = "faulty" THEN
    \* except Exception: the text carries the exception's type name
    [is_valid |-> FALSE, page_count |-> NoCount,
     error_message |-> "Error reading PDF: ValueError"]
  ELSE [is_valid |-> TRUE, page_count |-> f.pages, error_message |-> ""]

\* The checks probe_pdf makes, in order (lines 66-113): exists(), the magic
\* marker, the codec (PyMuPDF where installed, then pypdf).
probe_pdf_invokes(f) ==
  IF f.kind = "missing" THEN <<"exists">>
  ELSE IF ~is_pdf_file(f) THEN <<"exists", "is_pdf_file">>
  ELSE <<"exists", "is_pdf_file", "codec">>

\* A validator that goes to the prober before its own checks.
validate_invokes_ProbesFirst(f) ==
  probe_pdf_invokes(f) \o <<"exists", "is_pdf_file">>

\* The checks validate_and_update_queued_pdf makes, in order (lines 133-156).
validate_invokes(f) ==
  IF f.kind = "missing" THEN <<"exists">>
  ELSE IF ~is_pdf_file(f) THEN <<"exists", "is_pdf_file">>
  ELSE <<"exists", "is_pdf_file">> \o probe_pdf_invokes(f)

\* `"encrypted" in error_message.lower()` over the messages probe_pdf returns
MentionsEncrypted(msg) == msg \in {"PDF is encrypted"}
\* A test that takes every codec error text for a corrupt file.
MentionsCorrupt_AnyReadError(msg) ==
  msg \in {"PDF is corrupt or unreadable", "Error reading PDF: ValueError"}

\* `"corrupt" in error_message.lower() or "unreadable" in error_message.lower()`
MentionsCorrupt(msg) == msg \in {"PDF is corrupt or unreadable"}

\* A validator that counts pages only for an entity not yet Ready and clears
\* the count of one that is.
validate_and_update_queued_pdf_CountsOnce(e, f) ==
  IF f.kind = "missing" THEN
    [e EXCEPT !.status = ERROR, !.status_message = "File not found"]
  ELSE IF ~is_pdf_file(f) THEN
    [e EXCEPT !.status = NOT_PDF, !.status_message = "Not a valid PDF"]
  ELSE
    LET r == probe_pdf(f) IN
    IF r.is_valid THEN
      [e EXCEPT !.status = READY,
                !.page_count = IF e.status = READY THEN NoCount ELSE r.page_count,
                !.status_message = ""]
    ELSE IF MentionsEncrypted(r.error_message) THEN
      [e EXCEPT !.status = ENCRYPTED, !.status_message = "Password protected"]
    ELSE IF MentionsCorrupt(r.error_message) THEN
      [e EXCEPT !.status = CORRUPT, !.status_message = r.error_message]
    ELSE [e EXCEPT !.status = ERROR, !.status_message = r.error_message]

validate_and_update_queued_pdf(e, f) ==
  IF f.kind = "missing" THEN
    [e EXCEPT !.status = ERROR, !.status_message = "File not found"]
  ELSE IF ~is_pdf_file(f) THEN
    [e EXCEPT !.status = NOT_PDF, !.status_message = "Not a valid PDF"]
  ELSE
    LET r == probe_pdf(f) IN
    IF r.is_valid THEN
      [e EXCEPT !.status = READY, !.page_count = r.page_count, !.status_message = ""]
    ELSE IF MentionsEncrypted(r.error_message) THEN
      [e EXCEPT !.status = ENCRYPTED, !.status_message = "Password protected"]
    ELSE IF MentionsCorrupt(r.error_message) THEN
      [e EXCEPT !.status = CORRUPT, !.status_message = r.error_message]
    ELSE [e EXCEPT !.status = ERROR, !.status_message = r.error_message]

\* ------------------------------------------------- src/core/merge_service.py
VARIABLES
  files,              \* the file system: files[k] is the file of queue position k
  queue,              \* the QueuedPDF list handed to merge(), mutated in place
  queue0,             \* the entities as they were when merge() was called
  encryption_mode, generate_report, compute_hashes,   \* constructor arguments
  _cancelled, _shared_password,                       \* MergeService fields
  pc,                 \* where merge() stands; "raised": it raised to its caller
  passwords,          \* merge() argument: position -> supplied password or None
  has_callback,       \* merge() argument: password_request_callback is not None
  i,                  \* loop index, 1-based
  writer,             \* PdfWriter: the pages added so far, <<position, page>>
  total_pages, merged_count, skipped_count, error_count,
  manifest_entries,
  result,             \* the MergeResult merge() returns (valid when pc = "done")
  dest,               \* the destination path: "pre" (as before the run), "new", "partial"
  temp,               \* the mkstemp file: "none", "staged"
  report,             \* the .txt report beside the output: "none", "written",
                      \* "failed" (the write raised part way)
  prompts,            \* the prompt callback's invocations: position and answer
  validated,          \* per position, the entity as each validation run left it
  progress_callback,  \* merge() argument: progress_callback is not None
  progress,           \* the MergeProgress updates the progress callback was given
  calls,              \* the calls made on the service, with where merge() stood
  invoked,            \* per position, the checks the last validation run made
  page_count_pool,    \* MainWindow: the PageCountRunnables in flight
  validation_worker,  \* ValidationWorker: the entities it has still to validate
  edits,              \* the number of edits the user made to the queue
  report_text         \* what the report holds: the summary counts and the manifest blocks

vars ==
  <<files, queue, queue0, encryption_mode, generate_report, compute_hashes,
    _cancelled, _shared_password, pc, passwords, has_callback, i, writer,
    total_pages, merged_count, skipped_count, error_count, manifest_entries,
    result, dest, temp, report, prompts, validated, progress_callback,
    progress, calls, invoked, page_count_pool, validation_worker, edits,
    report_text>>

ui == <<page_count_pool, validation_worker, edits>>
svc == <<encryption_mode, generate_report, compute_hashes>>
counters == <<total_pages, merged_count, skipped_count, error_count>>
fs == <<dest, temp, report, report_text>>

N == Len(queue)

\* What PdfReader(file_path) does.
OpenOutcome(f) ==
  CASE f.kind \in ReadableKinds -> "opened"
    [] f.kind = "missing" -> "Exception"          \* FileNotFoundError
    [] f.kind = "faulty" -> "Exception"
    [] OTHER -> "PdfReadError"

reader_is_encrypted(f) == f.kind \in {"enc", "encEmpty"}

\* reader.decrypt(password) is truthy
reader_decrypt(f, password) == password = "good"

\* compute_sha256 opens and reads the file.
compute_sha256_fails(f) == f.kind = "missing"

\* A resolver that ignores the cached shared password.
get_password_for_file_AlwaysPrompt(mode, shared, supplied, cb, ans) ==
  IF supplied # None THEN
    [password |-> supplied, shared |-> shared, prompted |-> FALSE]
  ELSE IF mode = SKIP \/ ~cb THEN
    [password |-> None, shared |-> shared, prompted |-> FALSE]
  ELSE IF ans.cancelled THEN
    [password |-> None, shared |-> shared, prompted |-> TRUE]
  ELSE [password |-> ans.password,
        shared |-> IF mode = SINGLE_PASSWORD /\ ans.use_for_all
                   THEN ans.password ELSE shared,
        prompted |-> TRUE]

\* A resolver that caches a use-for-all answer in every prompting mode.
get_password_for_file_CachesEach(mode, shared, supplied, cb, ans) ==
  IF supplied # None THEN
    [password |-> supplied, shared |-> shared, prompted |-> FALSE]
  ELSE IF mode = SKIP THEN
    [password |-> None, shared |-> shared, prompted |-> FALSE]
  ELSE IF mode = SINGLE_PASSWORD /\ shared # None THEN
    [password |-> shared, shared |-> shared, prompted |-> FALSE]
  ELSE IF cb THEN
    IF ans.cancelled THEN [password |-> None, shared |-> shared, prompted |-> TRUE]
    ELSE [password |-> ans.password,
          shared |-> IF ans.use_for_all THEN ans.password ELSE shared,
          prompted |-> TRUE]
  ELSE [password |-> None, shared |-> shared, prompted |-> FALSE]

\* A resolver that prompts in SkipEncrypted mode when a callback is at hand.
get_password_for_file_SkipPrompts(mode, shared, supplied, cb, ans) ==
  IF supplied # None THEN
    [password |-> supplied, shared |-> shared, prompted |-> FALSE]
  ELSE IF mode = SINGLE_PASSWORD /\ shared # None THEN
    [password |-> shared, shared |-> shared, prompted |-> FALSE]
  ELSE IF cb THEN
    IF ans.cancelled THEN [password |-> None, shared |-> shared, prompted |-> TRUE]
    ELSE [password |-> ans.password,
          shared |-> IF mode = SINGLE_PASSWORD /\ ans.use_for_all
                     THEN ans.password ELSE shared,
          prompted |-> TRUE]
  ELSE [password |-> None, shared |-> shared, prompted |-> FALSE]

\* A resolver that looks at the cached shared password before the supplied map.
get_password_for_file_SharedFirst(mode, shared, supplied, cb, ans) ==
  IF mode = SINGLE_PASSWORD /\ shared # None THEN
    [password |-> shared, shared |-> shared, prompted |-> FALSE]
  ELSE IF supplied # None THEN
    [password |-> supplied, shared |-> shared, prompted |-> FALSE]
  ELSE IF mode = SKIP \/ ~cb THEN
    [password |-> None, shared |-> shared, prompted |-> FALSE]
  ELSE IF ans.cancelled THEN
    [password |-> None, shared |-> shared, prompted |-> TRUE]
  ELSE [password |-> ans.password,
        shared |-> IF mode = SINGLE_PASSWORD /\ ans.use_for_all
                   THEN ans.password ELSE shared,
        prompted |-> TRUE]

\* A resolver that stores the answer before it looks at the cancellation flag.
get_password_for_file_CancelCaches(mode, shared, supplied, cb, ans) ==
  IF supplied # None THEN
    [password |-> supplied, shared |-> shared, prompted |-> FALSE]
  ELSE IF mode = SKIP \/ ~cb THEN
    [password |-> None, shared |-> shared, prompted |-> FALSE]
  ELSE IF mode = SINGLE_PASSWORD /\ shared # None THEN
    [password |-> shared, shared |-> shared, prompted |-> FALSE]
  ELSE [password |-> IF ans.cancelled THEN None ELSE ans.password,
        shared |-> IF mode = SINGLE_PASSWORD /\ (ans.use_for_all \/ ans.cancelled)
                   THEN ans.password ELSE shared,
        prompted |-> TRUE]

\* Resolver.  ans is what the prompt callback answers if it is invoked.
\* Returns the password (or None), the new _shared_password, and whether the
\* callback was invoked.
get_password_for_file(mode, shared, supplied, cb, ans) ==
  IF supplied # None THEN
    [password |-> supplied, shared |-> shared, prompted |-> FALSE]
  ELSE IF mode = SKIP THEN
    [password |-> None, shared |-> shared, prompted |-> FALSE]
  ELSE IF mode = SINGLE_PASSWORD THEN
    IF shared # None THEN
      [password |-> shared, shared |-> shared, prompted |-> FALSE]
    ELSE IF cb THEN
      IF ans.cancelled THEN [password |-> None, shared |-> shared, prompted |-> TRUE]
      ELSE [password |-> ans.password,
            shared |-> IF ans.use_for_all THEN ans.password ELSE shared,
            prompted |-> TRUE]
    ELSE [password |-> None, shared |-> shared, prompted |-> FALSE]
  ELSE IF mode = PROMPT_EACH THEN
    IF cb THEN
      IF ans.cancelled THEN [password |-> None, shared |-> shared, prompted |-> TRUE]
      ELSE [password |-> ans.password, shared |-> shared, prompted |-> TRUE]
    ELSE [password |-> None, shared |-> shared, prompted |-> FALSE]
  ELSE [password |-> None, shared |-> shared, prompted |-> FALSE]

\* An index counted among the merged files only.
create_manifest_entry_MergedIndex(index, e) ==
  [index |-> merged_count + 1, page_count |-> e.page_count,
   status |-> manifest_status(e), sha256_hash |-> e.sha256_hash]

create_manifest_entry(index, e) ==
  [index |-> index, page_count |-> e.page_count, status |-> manifest_status(e),
   sha256_hash |-> e.sha256_hash]

\* Pages 1..n of the file at queue position k, in document order.
PagesOf(k, n) == [j \in 1..n |-> <<k, j>>]

\* The page loop: failAt = 0 copies every page; failAt = j raises on reading
\* page j, after pages 1..j-1 were added to the writer.
PagesAdded(f, failAt) == IF failAt = 0 THEN f.pages ELSE failAt - 1

\* A loop that never looks at the flag.
CancelRequested_Never == FALSE

\* Line 169: the loop's test of the cancellation flag.
CancelRequested == _cancelled

\* No early return.
NoValidFiles_Never == FALSE

\* Lines 147-152: the early return when no entity is Pending or Ready.
NoValidFiles == \A k \in 1..N : ~is_valid_for_merge(queue[k])

ResultNoValidFiles ==
  [NewMergeResult EXCEPT !.error_message = "No valid PDF files to merge",
                         !.skipped_count = N]

\* Lines 171-172.
ResultCancelled(r) == [r EXCEPT !.error_message = "Merge cancelled"]

\* A run that writes its output even when no file was merged.
NothingMerged_Never == FALSE

\* A run that gives up after the loop when the flag is set.
NothingMerged_OrCancelled == merged_count = 0 \/ _cancelled

\* Line 292.
NothingMerged == merged_count = 0

\* Lines 293-297.
ResultNothingMerged(r) ==
  [r EXCEPT !.error_message = "No files could be merged",
            !.skipped_count = skipped_count,
            !.error_count = error_count,
            !.manifest_entries = manifest_entries]

\* Lines 341-344.
ResultWriteFailed(r) ==
  [r EXCEPT !.error_message = "Failed to write output",
            !.manifest_entries = manifest_entries]

\* A success that forgets the manifest.
ResultSuccess_NoManifest(r) ==
  [r EXCEPT !.success = TRUE,
            !.merged_count = merged_count,
            !.skipped_count = skipped_count,
            !.error_count = error_count,
            !.total_pages = total_pages]

\* Lines 362-369.
ResultSuccess(r) ==
  [r EXCEPT !.success = TRUE,
            !.merged_count = merged_count,
            !.skipped_count = skipped_count,
            !.error_count = error_count,
            !.total_pages = total_pages,
            !.manifest_entries = manifest_entries]

\* The caller's entities: fresh (Pending) or validated by the validator; a
\* one-page good document may also have been excluded by the caller (Skipped)
\* or be left Merged by an earlier merge of the same queue.
\* encEmpty stands for the encrypted file the validator passes as Ready.
InitialEntities(f) ==
  (IF f.kind = "encEmpty" THEN {} ELSE {NewQueuedPDF})
    \cup {validate_and_update_queued_pdf(NewQueuedPDF, f)}
    \cup (IF f.kind = "ok" /\ f.pages = 1
          THEN {[NewQueuedPDF EXCEPT !.status = SKIPPED],
                [NewQueuedPDF EXCEPT !.status = MERGED, !.page_count = 1]}
          ELSE {})

\* The constructor's options, each varied from the other's default.
ServiceOptions ==
  {[generate_report |-> TRUE, compute_hashes |-> FALSE],
   [generate_report |-> FALSE, compute_hashes |-> TRUE]}

Init ==
  /\ files \in UNION {[1..n -> FileProfiles] : n \in 1..MaxFiles}
  /\ queue \in {q \in [DOMAIN files -> UNION {InitialEntities(p) : p \in FileProfiles}] :
                  \A k \in DOMAIN files : q[k] \in InitialEntities(files[k])}
  /\ queue0 = queue
  /\ encryption_mode \in EncryptionHandlingMode
  /\ \E o \in ServiceOptions :
       /\ generate_report = o.generate_report
       /\ compute_hashes = o.compute_hashes
  /\ _cancelled = FALSE
  /\ _shared_password = None
  /\ pc = "idle"
  /\ passwords = [k \in DOMAIN files |-> None]
  /\ has_callback = FALSE
  /\ i = 0
  /\ writer = << >>
  /\ total_pages = 0 /\ merged_count = 0 /\ skipped_count = 0 /\ error_count = 0
  /\ manifest_entries = << >>
  /\ result = NewMergeResult
  /\ dest = "pre" /\ temp = "none" /\ report = "none"
  /\ prompts = << >>
  /\ validated = [k \in DOMAIN files |-> << >>]
  /\ progress_callback = FALSE
  /\ progress = << >>
  /\ calls = << >>
  /\ invoked = [k \in DOMAIN files |-> << >>]
  /\ page_count_pool = {} /\ validation_worker = << >> /\ edits = 0
  /\ report_text = NoReport

\* A call on the service: the method, and where merge() stood when it was
\* made (pc, and the loop index once the loop has started).
Call(op) ==
  [op |-> op, at |-> pc, index |-> IF pc \in {"loop", "open", "move"} THEN i ELSE 0]

\* The calls of merge() so far.
Runs == Cardinality({c \in DOMAIN calls : calls[c].op = "merge"})

\* MergeService.cancel, from the caller's thread.
Cancel ==
  /\ pc \in {"invoked", "loop", "open", "post", "move"}
  /\ ~_cancelled
  /\ _cancelled' = TRUE
  /\ calls' = Append(calls, Call("cancel"))
  /\ UNCHANGED <<files, invoked, ui, validated, progress_callback, progress, queue, queue0, svc, _shared_password, pc, passwords,
                 has_callback, i, writer, counters, manifest_entries, result, fs,
                 prompts>>

\* A reset that clears the flag only.
Reset_KeepsPassword == [cancelled |-> FALSE, shared_password |-> _shared_password]

\* MergeService.reset (71-74): the fields as it leaves them.
Reset == [cancelled |-> FALSE, shared_password |-> None]

\* The caller resets the service between two runs.
ResetCall ==
  /\ pc = "idle"
  /\ calls # << >> /\ calls[Len(calls)].op # "reset"
  /\ _cancelled' = Reset.cancelled
  /\ _shared_password' = Reset.shared_password
  /\ calls' = Append(calls, Call("reset"))
  /\ UNCHANGED <<files, invoked, ui, validated, progress_callback, progress, queue, queue0, svc, pc,
                 passwords, has_callback, i, writer, counters, manifest_entries,
                 result, fs, prompts>>

\* merge() has returned or raised; the caller has the service to itself
\* again and may call merge() once more on the same queue and output path.
MaxRuns == 2

Return ==
  /\ pc \in {"done", "raised"}
  /\ Runs < MaxRuns
  /\ pc' = "idle"
  /\ UNCHANGED <<files, invoked, ui, calls, validated, progress_callback, progress, queue, queue0, svc,
                 _cancelled, _shared_password, passwords, has_callback, i, writer,
                 counters, manifest_entries, result, fs, prompts>>

\* MergeService.set_shared_password, as MainWindow._on_merge calls it: in
\* SINGLE_PASSWORD mode, before the merge is started.
SetSharedPassword(p) ==
  /\ pc = "idle"
  /\ encryption_mode = SINGLE_PASSWORD
  /\ _shared_password = None
  /\ _shared_password' = p
  /\ calls' = Append(calls, Call("set_shared_password"))
  /\ UNCHANGED <<files, invoked, ui, validated, progress_callback, progress, queue, queue0, svc, _cancelled, pc, passwords,
                 has_callback, i, writer, counters, manifest_entries, result, fs,
                 prompts>>

\* The caller invokes merge(files, output_path, passwords=pw,
\* password_request_callback=cb or None, progress_callback=pcb or None).  Supplied passwords are keyed by the
\* path of an encrypted file of the queue that is still to be merged.
MergeCall(pw, cb, pcb) ==
  /\ pc = "idle"
  /\ pc' = "invoked"
  /\ passwords' = pw
  /\ has_callback' = cb
  /\ progress_callback' = pcb
  /\ queue0' = queue
  /\ prompts' = << >>
  /\ progress' = << >>
  /\ calls' = Append(calls, Call("merge"))
  /\ UNCHANGED <<files, invoked, ui, validated, queue, svc, _cancelled, _shared_password, i, writer,
                 counters, manifest_entries, result, fs>>

\* merge(), lines 136-165: clear the flag, filter, set up the writer.
MergeStart ==
  /\ pc = "invoked"
  /\ _cancelled' = FALSE
  /\ IF NoValidFiles
     THEN /\ result' = ResultNoValidFiles
          /\ pc' = "done"
          /\ UNCHANGED <<i, writer, counters, manifest_entries>>
     ELSE /\ result' = NewMergeResult
          /\ writer' = << >>
          /\ total_pages' = 0 /\ merged_count' = 0
          /\ skipped_count' = 0 /\ error_count' = 0
          /\ manifest_entries' = << >>
          /\ i' = 1
          /\ pc' = "loop"
  /\ UNCHANGED <<files, invoked, ui, calls, validated, progress_callback, progress, queue, queue0, svc, _shared_password, passwords,
                 has_callback, fs, prompts>>

\* A hashing step whose failure fails the entity.
WithHash_FailureIsError(e, f) ==
  IF ~compute_hashes THEN e
  ELSE IF compute_sha256_fails(f)
  THEN [e EXCEPT !.status = ERROR, !.status_message = "hash failed"]
  ELSE [e EXCEPT !.sha256_hash = "sha256"]

\* The entity after the hashing step (lines 185-190).
WithHash(e, f) ==
  IF compute_hashes /\ ~compute_sha256_fails(f)
  THEN [e EXCEPT !.sha256_hash = "sha256"] ELSE e

\* percent_complete is a float; it is kept as an exact fraction.
Percent(num, den) == [num |-> num, den |-> den]

\* A loop that spreads the files over the whole scale.
LoopPercent_FullScale(index, total) == Percent(index * 100, total)

\* Line 181: ((i + 1) / total) * 80, for the 1-based position `index`.
LoopPercent(index, total) == Percent(index * 80, total)

\* MergeProgress(current_index, total_files, percent_complete, status_message)
MergeProgress(index, total, percent, message) ==
  [current_index |-> index, total_files |-> total, percent_complete |-> percent,
   status_message |-> message]

\* `if progress_callback: progress_callback(update)`: the updates given so far.
Emit(update) == IF progress_callback THEN Append(progress, update) ELSE progress

\* Whether the invoked progress callback raises.
ProgressRaises == IF progress_callback THEN BOOLEAN ELSE {FALSE}

\* merge(), lines 168-202: the file boundary of entity i.  The progress
\* callback (176-183) is called outside any try: what it raises leaves merge().
BeginEntity ==
  /\ pc = "loop"
  /\ i <= N
  /\ IF CancelRequested
     THEN /\ result' = ResultCancelled(result)
          /\ pc' = "done"
          /\ UNCHANGED <<queue, i, skipped_count, manifest_entries, progress>>
     ELSE /\ progress' = Emit(MergeProgress(i, N, LoopPercent(i, N), "Merging"))
          /\ \E raises \in ProgressRaises :
               IF raises
               THEN /\ pc' = "raised"
                    /\ UNCHANGED <<queue, i, skipped_count, manifest_entries, result>>
               ELSE
                 LET e == WithHash(queue[i], files[i]) IN
                 IF ~is_valid_for_merge(e)
                 THEN /\ queue' = [queue EXCEPT ![i] = e]
                      /\ manifest_entries' =
                           Append(manifest_entries, create_manifest_entry(i, e))
                      /\ skipped_count' =
                           IF e.status \notin {PENDING, READY}
                           THEN skipped_count + 1 ELSE skipped_count
                      /\ i' = i + 1
                      /\ UNCHANGED <<pc, result>>
                 ELSE /\ queue' = [queue EXCEPT ![i] = [e EXCEPT !.status = PROCESSING]]
                      /\ pc' = "open"
                      /\ UNCHANGED <<i, skipped_count, manifest_entries, result>>
  /\ UNCHANGED <<files, invoked, ui, calls, validated, progress_callback, queue0, svc, _cancelled,
                 _shared_password, passwords, has_callback, writer, total_pages,
                 merged_count, error_count, fs, prompts>>

\* A skip that marks the entity and emits its entry but is not counted.
SkipEncrypted_Uncounted(e, reason, message) ==
  [entity |-> [e EXCEPT !.status = ENCRYPTED, !.status_message = message,
                        !.skip_reason = reason],
   added |-> 0, merged |-> 0, skipped |-> 0, error |-> 0]

\* An encrypted entity put aside as Skipped instead of Encrypted.
SkipEncrypted_AsSkipped(e, reason, message) ==
  [entity |-> [e EXCEPT !.status = SKIPPED, !.skip_reason = reason,
                        !.status_message = message],
   added |-> 0, merged |-> 0, skipped |-> 1, error |-> 0]

\* The three "continue" branches of the encryption handling (lines 216-251).
SkipEncrypted(e, reason, message) ==
  [entity |-> [e EXCEPT !.status = ENCRYPTED, !.skip_reason = reason,
                        !.status_message = message],
   added |-> 0, merged |-> 0, skipped |-> 1, error |-> 0]

\* Lines 260-264.
MarkMerged(e, added) ==
  [entity |-> [e EXCEPT !.status = MERGED, !.page_count = added,
                        !.status_message = "", !.skip_reason = ""],
   added |-> added, merged |-> 1, skipped |-> 0, error |-> 0]

\* A handler that counts the failure and forgets the entity's status.
MarkCorrupt_KeepsProcessing(e, added) ==
  [entity |-> [e EXCEPT !.status_message = "Corrupt or unreadable",
                        !.skip_reason = "corrupt"],
   added |-> added, merged |-> 0, skipped |-> 0, error |-> 1]

\* except PdfReadError (lines 271-279); `added` pages were already in the writer.
MarkCorrupt(e, added) ==
  [entity |-> [e EXCEPT !.status = CORRUPT,
                        !.status_message = "Corrupt or unreadable",
                        !.skip_reason = "corrupt"],
   added |-> added, merged |-> 0, skipped |-> 0, error |-> 1]

\* The slice bound of line 283.
StatusMessageLimit == 50

\* str(e) of the exceptions a run meets: one character short of the limit,
\* at the limit, one character over it.
ErrorTexts ==
  {"codec failure while reading the page tree: bad xr",
   "codec failure while reading the page tree: bad xre",
   "codec failure while reading the page tree: bad xrfg"}

\* text[:StatusMessageLimit]
Truncated(text) ==
  IF Len(text) <= StatusMessageLimit THEN text
  ELSE SubSeq(text, 1, StatusMessageLimit)

\* A handler that keeps the whole text.
MarkError_WholeText(e, added, text) ==
  [entity |-> [e EXCEPT !.status = ERROR, !.status_message = text,
                        !.skip_reason = "error"],
   added |-> added, merged |-> 0, skipped |-> 0, error |-> 1]

\* except Exception (lines 281-289): status_message = str(e)[:50].
MarkError(e, added, text) ==
  [entity |-> [e EXCEPT !.status = ERROR, !.status_message = Truncated(text),
                        !.skip_reason = "error"],
   added |-> added, merged |-> 0, skipped |-> 0, error |-> 1]

\* merge(), lines 204-289, for the entity e (already Processing) over file f.
\* password: what the resolver returned; decryptRaises: reader.decrypt raises;
\* failAt/err: where and how the page loop fails (failAt = 0: it does not);
\* text: str(e) of the exception, where one is raised.
ProcessOutcome(e, f, password, decryptRaises, failAt, err, text) ==
  IF OpenOutcome(f) = "PdfReadError" THEN MarkCorrupt(e, 0)
  ELSE IF OpenOutcome(f) = "Exception" THEN MarkError(e, 0, text)
  ELSE
    LET enc == reader_is_encrypted(f)
        e1 == IF enc THEN [e EXCEPT !.is_encrypted = TRUE] ELSE e
    IN IF enc /\ password = None THEN SkipEncrypted(e1, "skipped", "Skipped")
       ELSE IF enc /\ decryptRaises
         THEN SkipEncrypted(e1, "decrypt error", "Decrypt failed")
       ELSE IF enc /\ ~reader_decrypt(f, password)
         THEN SkipEncrypted(e1, "password failed", "Wrong password")
       ELSE
         LET e2 == IF enc THEN [e1 EXCEPT !.password_provided = TRUE] ELSE e1
             added == PagesAdded(f, failAt)
         IN IF failAt = 0 THEN MarkMerged(e2, added)
            ELSE IF err = "PdfReadError" THEN MarkCorrupt(e2, added)
            ELSE MarkError(e2, added, text)

\* The resolver is consulted only for a document that opened and is encrypted.
Resolve(f, k, ans) ==
  IF OpenOutcome(f) = "opened" /\ reader_is_encrypted(f)
  THEN get_password_for_file(encryption_mode, _shared_password, passwords[k],
                             has_callback, ans)
  ELSE [password |-> None, shared |-> _shared_password, prompted |-> FALSE]

\* The environment's choices that the processing of file f can observe.
AnswersFor(f, k) ==
  IF Resolve(f, k, CHOOSE a \in Answers : TRUE).prompted THEN Answers
  ELSE {CHOOSE a \in Answers : TRUE}

DecryptChoices(f, password) ==
  IF OpenOutcome(f) = "opened" /\ reader_is_encrypted(f) /\ password # None
  THEN BOOLEAN ELSE {FALSE}

CopyChoices(f, password, decryptRaises) ==
  IF OpenOutcome(f) = "opened"
     /\ (reader_is_encrypted(f) =>
           password # None /\ ~decryptRaises /\ reader_decrypt(f, password))
  THEN {<<0, "none">>} \cup ((1..f.pages) \X {"PdfReadError", "Exception"})
  ELSE {<<0, "none">>}

\* The texts the handler at line 281 can be given for this file and failure.
TextChoices(f, err) ==
  IF OpenOutcome(f) = "Exception" \/ err = "Exception" THEN ErrorTexts
  ELSE {""}

ProcessEntity ==
  /\ pc = "open"
  /\ \E ans \in AnswersFor(files[i], i) :
       LET rp == Resolve(files[i], i, ans) IN
       \E decryptRaises \in DecryptChoices(files[i], rp.password) :
       \E fail \in CopyChoices(files[i], rp.password, decryptRaises) :
       \E text \in TextChoices(files[i], fail[2]) :
       LET o == ProcessOutcome(queue[i], files[i], rp.password, decryptRaises,
                               fail[1], fail[2], text)
       IN /\ queue' = [queue EXCEPT ![i] = o.entity]
          /\ writer' = writer \o PagesOf(i, o.added)
          /\ total_pages' = total_pages + o.added
          /\ merged_count' = merged_count + o.merged
          /\ skipped_count' = skipped_count + o.skipped
          /\ error_count' = error_count + o.error
          /\ manifest_entries' =
               Append(manifest_entries, create_manifest_entry(i, o.entity))
          /\ _shared_password' = rp.shared
          /\ prompts' = IF rp.prompted
                        THEN Append(prompts, [position |-> i, answer |-> ans])
                        ELSE prompts
  /\ i' = i + 1
  /\ pc' = "loop"
  /\ UNCHANGED <<files, invoked, ui, calls, validated, progress_callback, progress, queue0, svc, _cancelled, passwords, has_callback,
                 result, fs>>

\* merge(), lines 291-328: nothing merged, or stage the output in a temp file.
\* staged: the progress callback (310-317), mkdir, mkstemp and writer.write
\* all succeeded; any of them raising is caught at line 340.
PostLoop ==
  /\ pc = "loop"
  /\ i > N
  /\ IF NothingMerged
     THEN /\ result' = ResultNothingMerged(result)
          /\ pc' = "done"
          /\ UNCHANGED <<temp, progress>>
     ELSE /\ progress' = Emit(MergeProgress(N, N, Percent(90, 1), "Writing output file..."))
          /\ \E staged \in BOOLEAN :
            IF staged
            THEN /\ temp' = "staged"
                 /\ pc' = "move"
                 /\ UNCHANGED result
            ELSE \* the handler unlinks the temp file if it exists
                 /\ temp' = "none"
                 /\ result' = ResultWriteFailed(result)
                 /\ pc' = "done"
  /\ UNCHANGED <<files, invoked, ui, calls, validated, progress_callback, queue, queue0, svc, _cancelled, _shared_password,
                 passwords, has_callback, i, writer, counters, manifest_entries,
                 dest, report, report_text, prompts>>

\* shutil.move(temp, output): os.rename when it works; otherwise (another file
\* system) copy the file to the destination and unlink the source.  A copy
\* that fails leaves what it had written so far at the destination.
MoveOutcomes == {"renamed", "copied", "copy_failed"}

DestAfterMove(outcome) ==
  CASE outcome = "renamed" -> "new"
    [] outcome = "copied" -> "new"
    [] outcome = "copy_failed" -> "partial"

\* A report that lists only the entities that went into the output.
ReportText_MergedOnly ==
  LET IsMerged(entry) == entry.status = "Merged"
      merged == SelectSeq(manifest_entries, IsMerged)
  IN [summary |-> <<merged_count, skipped_count, error_count, total_pages>>,
      manifest |-> [j \in DOMAIN merged |-> to_manifest_line(merged[j], compute_hashes)]]

\* The SUMMARY and MERGE MANIFEST sections _write_summary_report writes
\* (lines 476-496), from the arguments merge() passes at lines 348-356.
ReportText ==
  [summary |-> <<merged_count, skipped_count, error_count, total_pages>>,
   manifest |-> [j \in DOMAIN manifest_entries |->
                   to_manifest_line(manifest_entries[j], compute_hashes)]]

\* _write_summary_report(): the whole body runs inside try/except Exception,
\* which logs the failure and returns.  ok: every write succeeded.
write_summary_report_Propagates(ok) ==
  [report |-> IF ok THEN "written" ELSE "failed",
   text |-> IF ok THEN ReportText ELSE report_text,
   raises |-> ~ok]

\* What a write that failed part way left in the file is not kept.
write_summary_report(ok) ==
  [report |-> IF ok THEN "written" ELSE "failed",
   text |-> IF ok THEN ReportText ELSE report_text,
   raises |-> FALSE]

\* merge(), lines 330-385: move into place, report, final result.
MoveOutput ==
  /\ pc = "move"
  /\ \E outcome \in MoveOutcomes, reportOk \in BOOLEAN :
       /\ dest' = DestAfterMove(outcome)
       /\ temp' = "none"
       /\ IF outcome = "copy_failed"
          THEN /\ result' = ResultWriteFailed(result)
               /\ pc' = "done"
               /\ UNCHANGED <<report, report_text, progress>>
          ELSE LET w == IF generate_report THEN write_summary_report(reportOk)
                        ELSE [report |-> report, text |-> report_text, raises |-> FALSE]
               IN /\ report' = w.report
                  /\ report_text' = w.text
                  /\ IF w.raises
                     THEN /\ pc' = "raised"
                          /\ UNCHANGED <<result, progress>>
                     ELSE /\ progress' = Emit(MergeProgress(N, N, Percent(100, 1),
                                                           "Complete!"))
                          /\ \E raises \in ProgressRaises :
                               IF raises
                               THEN \* lines 371-378 are outside any try
                                    /\ pc' = "raised"
                                    /\ UNCHANGED result
                               ELSE /\ pc' = "done"
                                    /\ result' = ResultSuccess(result)
  /\ UNCHANGED <<files, invoked, ui, calls, validated, progress_callback, queue, queue0, svc, _cancelled, _shared_password,
                 passwords, has_callback, i, writer, counters, manifest_entries,
                 prompts>>

SuppliedPasswords ==
  {pw \in [1..N -> Passwords \cup {None}] :
     \A k \in 1..N :
       pw[k] # None => reader_is_encrypted(files[k]) /\ is_valid_for_merge(queue[k])}

Next ==
  \/ \E pw \in SuppliedPasswords, cb \in BOOLEAN : MergeCall(pw, cb, FALSE)
  \/ \E p \in Passwords : SetSharedPassword(p)
  \/ Cancel
  \/ MergeStart
  \/ BeginEntity
  \/ ProcessEntity
  \/ PostLoop
  \/ MoveOutput

Spec == Init /\ [][Next]_vars

\* The three-file queue: a good document of p pages, an encrypted document,
\* a malformed file; each entity fresh or validated.
ScenarioFiles(p) ==
  <<[kind |-> "ok", pages |-> p], [kind |-> "enc", pages |-> 1],
    [kind |-> "corrupt", pages |-> 0]>>

ScenarioInit ==
  /\ files \in {ScenarioFiles(p) : p \in 1..MaxPages}
  /\ queue \in {q \in [1..3 -> UNION {InitialEntities(f) : f \in FileProfiles}] :
                  \A k \in 1..3 : /\ q[k] \in InitialEntities(files[k])
                                  /\ q[k].status \notin {SKIPPED, MERGED}}
  /\ queue0 = queue
  /\ encryption_mode = SKIP
  /\ \E o \in ServiceOptions :
       /\ generate_report = o.generate_report
       /\ compute_hashes = o.compute_hashes
  /\ _cancelled = FALSE
  /\ _shared_password = None
  /\ pc = "idle"
  /\ passwords = [k \in 1..3 |-> None]
  /\ has_callback = FALSE
  /\ i = 0
  /\ writer = << >>
  /\ total_pages = 0 /\ merged_count = 0 /\ skipped_count = 0 /\ error_count = 0
  /\ manifest_entries = << >>
  /\ result = NewMergeResult
  /\ dest = "pre" /\ temp = "none" /\ report = "none"
  /\ prompts = << >>
  /\ validated = [k \in DOMAIN files |-> << >>]
  /\ progress_callback = FALSE
  /\ progress = << >>
  /\ calls = << >>
  /\ invoked = [k \in DOMAIN files |-> << >>]
  /\ page_count_pool = {} /\ validation_worker = << >> /\ edits = 0
  /\ report_text = NoReport

\* merge() called without supplied passwords.
ScenarioNext ==
  \/ \E cb \in BOOLEAN : MergeCall([k \in 1..N |-> None], cb, FALSE)
  \/ Cancel
  \/ MergeStart
  \/ BeginEntity
  \/ ProcessEntity
  \/ PostLoop
  \/ MoveOutput

SpecScenario == ScenarioInit /\ [][ScenarioNext]_vars

\* ---------------------------------------------------------------- validation
\* How often one entity is validated.
MaxValidations == 2

\* An entity as any earlier use of the queue may have left it: any status,
\* with or without a page count.
StaleEntities ==
  {[NewQueuedPDF EXCEPT !.status = s, !.page_count = c] :
     s \in FileStatus, c \in {NoCount} \cup (1..MaxPages)}

ValidateInit ==
  /\ files \in [1..1 -> ProbeProfiles]
  /\ queue \in [1..1 -> StaleEntities]
  /\ queue0 = queue
  /\ encryption_mode \in EncryptionHandlingMode
  /\ generate_report = TRUE /\ compute_hashes = FALSE
  /\ _cancelled = FALSE
  /\ _shared_password = None
  /\ pc = "idle"
  /\ passwords = [k \in DOMAIN files |-> None]
  /\ has_callback = FALSE
  /\ i = 0
  /\ writer = << >>
  /\ total_pages = 0 /\ merged_count = 0 /\ skipped_count = 0 /\ error_count = 0
  /\ manifest_entries = << >>
  /\ result = NewMergeResult
  /\ dest = "pre" /\ temp = "none" /\ report = "none"
  /\ prompts = << >>
  /\ validated = [k \in DOMAIN files |-> << >>]
  /\ progress_callback = FALSE
  /\ progress = << >>
  /\ calls = << >>
  /\ invoked = [k \in DOMAIN files |-> << >>]
  /\ page_count_pool = {} /\ validation_worker = << >> /\ edits = 0
  /\ report_text = NoReport

\* validate_and_update_queued_pdf(queued_pdf) on the entity at position k; the
\* file is the one the previous run saw.
ValidateEntity(k) ==
  /\ pc = "idle"
  /\ Len(validated[k]) < MaxValidations
  /\ queue' = [queue EXCEPT ![k] = validate_and_update_queued_pdf(queue[k], files[k])]
  /\ validated' = [validated EXCEPT ![k] = Append(@, queue'[k])]
  /\ invoked' = [invoked EXCEPT ![k] = validate_invokes(files[k])]
  /\ UNCHANGED <<files, ui, calls, progress_callback, progress, queue0, svc, _cancelled,
                 _shared_password, pc, passwords, has_callback, i, writer, counters,
                 manifest_entries, result, fs, prompts>>

ValidateNext == \E k \in 1..N : ValidateEntity(k)

SpecValidate == ValidateInit /\ [][ValidateNext]_vars

\* ------------------------------------------------------------ manifest text
\* Entities as a report may meet them: any status, with and without a skip
\* reason, a status message and a page count.
ReportEntities ==
  {[NewQueuedPDF EXCEPT !.status = s, !.skip_reason = r, !.status_message = m,
                        !.page_count = c] :
     s \in FileStatus, r \in {"", "duplicate", "password failed"},
     m \in {"", "File not found"}, c \in {NoCount, 0, 1}}

ManifestInit ==
  /\ files = <<[kind |-> "ok", pages |-> 1]>>
  /\ queue \in [1..1 -> ReportEntities]
  /\ queue0 = queue
  /\ encryption_mode = SKIP
  /\ generate_report = TRUE /\ compute_hashes = FALSE
  /\ _cancelled = FALSE
  /\ _shared_password = None
  /\ pc = "idle"
  /\ passwords = [k \in DOMAIN files |-> None]
  /\ has_callback = FALSE
  /\ i = 0
  /\ writer = << >>
  /\ total_pages = 0 /\ merged_count = 0 /\ skipped_count = 0 /\ error_count = 0
  /\ manifest_entries = << >>
  /\ result = NewMergeResult
  /\ dest = "pre" /\ temp = "none" /\ report = "none"
  /\ prompts = << >>
  /\ validated = [k \in DOMAIN files |-> << >>]
  /\ progress_callback = FALSE
  /\ progress = << >>
  /\ calls = << >>
  /\ invoked = [k \in DOMAIN files |-> << >>]
  /\ page_count_pool = {} /\ validation_worker = << >> /\ edits = 0
  /\ report_text = NoReport

\* _create_manifest_entry(k, queued_pdf) for the entity at position k.
EmitManifestEntry(k) ==
  /\ pc = "idle"
  /\ Len(manifest_entries) = k - 1
  /\ manifest_entries' = Append(manifest_entries, create_manifest_entry(k, queue[k]))
  /\ UNCHANGED <<files, invoked, ui, calls, validated, progress_callback, progress, queue, queue0, svc, _cancelled, _shared_password,
                 pc, passwords, has_callback, i, writer, counters, result, fs,
                 prompts>>

\* _write_summary_report over the entries emitted.
WriteManifest ==
  /\ pc = "idle"
  /\ Len(manifest_entries) = N
  /\ report = "none"
  /\ report' = write_summary_report(TRUE).report
  /\ report_text' = write_summary_report(TRUE).text
  /\ UNCHANGED <<files, invoked, ui, calls, validated, progress_callback, progress, queue,
                 queue0, svc, _cancelled, _shared_password, pc, passwords,
                 has_callback, i, writer, counters, manifest_entries, result, dest,
                 temp, prompts>>

ManifestNext ==
  \/ \E k \in 1..N : EmitManifestEntry(k)
  \/ WriteManifest

SpecManifest == ManifestInit /\ [][ManifestNext]_vars

\* ------------------------------------------------------------------ progress
\* merge() called with a progress callback, which may raise.
ProgressInit == Init /\ generate_report

ProgressNext ==
  \/ \E pw \in SuppliedPasswords, cb \in BOOLEAN : MergeCall(pw, cb, TRUE)
  \/ Cancel
  \/ MergeStart
  \/ BeginEntity
  \/ ProcessEntity
  \/ PostLoop
  \/ MoveOutput

SpecProgress == ProgressInit /\ [][ProgressNext]_vars

\* One service object used for up to MaxRuns runs over a queue of two fresh
\* entities, each over a plain or an encrypted one-page document.
RerunInit ==
  /\ files \in [1..2 -> {[kind |-> "ok", pages |-> 1], [kind |-> "enc", pages |-> 1]}]
  /\ queue = [k \in DOMAIN files |-> NewQueuedPDF]
  /\ queue0 = queue
  /\ encryption_mode \in EncryptionHandlingMode
  /\ generate_report = FALSE /\ compute_hashes = FALSE
  /\ _cancelled = FALSE
  /\ _shared_password = None
  /\ pc = "idle"
  /\ passwords = [k \in DOMAIN files |-> None]
  /\ has_callback = FALSE
  /\ i = 0
  /\ writer = << >>
  /\ total_pages = 0 /\ merged_count = 0 /\ skipped_count = 0 /\ error_count = 0
  /\ manifest_entries = << >>
  /\ result = NewMergeResult
  /\ dest = "pre" /\ temp = "none" /\ report = "none"
  /\ prompts = << >>
  /\ validated = [k \in DOMAIN files |-> << >>]
  /\ progress_callback = FALSE
  /\ progress = << >>
  /\ calls = << >>
  /\ invoked = [k \in DOMAIN files |-> << >>]
  /\ page_count_pool = {} /\ validation_worker = << >> /\ edits = 0
  /\ report_text = NoReport

RerunNext ==
  \/ \E pw \in SuppliedPasswords, cb \in BOOLEAN : MergeCall(pw, cb, FALSE)
  \/ ResetCall
  \/ Return
  \/ Cancel
  \/ MergeStart
  \/ BeginEntity
  \/ ProcessEntity
  \/ PostLoop
  \/ MoveOutput

SpecRerun == RerunInit /\ [][RerunNext]_vars

\* ------------------------------------------------------ src/ui/main_window.py
\* _validate_files: up to this many new files are validated on the spot, a
\* larger batch goes to a ValidationWorker.
SyncValidationLimit == 5

\* How many edits (move, remove, sort) the user makes to the queue.
MaxEdits == 2

\* The batches of files dropped on the window.  `path` stands for the file's
\* path and orders the files by name.
QueueBatches ==
  {<<[kind |-> "ok", pages |-> 1, path |-> 3],
     [kind |-> "ok", pages |-> 2, path |-> 1],
     [kind |-> "corrupt", pages |-> 0, path |-> 2]>>,
   <<[kind |-> "ok", pages |-> 1, path |-> 2],
     [kind |-> "ok", pages |-> 2, path |-> 1],
     [kind |-> "corrupt", pages |-> 0, path |-> 3],
     [kind |-> "enc", pages |-> 1, path |-> 4],
     [kind |-> "corrupt", pages |-> 0, path |-> 5],
     [kind |-> "enc", pages |-> 1, path |-> 6]>>}

\* MainWindow after construction: an empty queue, nothing in flight.
QueueInit ==
  /\ files = << >>
  /\ queue = << >>
  /\ queue0 = queue
  /\ encryption_mode = SKIP
  /\ generate_report = TRUE /\ compute_hashes = FALSE
  /\ _cancelled = FALSE
  /\ _shared_password = None
  /\ pc = "idle"
  /\ passwords = << >>
  /\ has_callback = FALSE
  /\ i = 0
  /\ writer = << >>
  /\ total_pages = 0 /\ merged_count = 0 /\ skipped_count = 0 /\ error_count = 0
  /\ manifest_entries = << >>
  /\ result = NewMergeResult
  /\ dest = "pre" /\ temp = "none" /\ report = "none"
  /\ prompts = << >>
  /\ validated = << >>
  /\ progress_callback = FALSE
  /\ progress = << >>
  /\ calls = << >>
  /\ invoked = << >>
  /\ page_count_pool = {} /\ validation_worker = << >> /\ edits = 0
  /\ report_text = NoReport

\* _add_files (758-786) on an empty queue, with _validate_files (788-812) and
\* _request_lazy_page_counts (814-826): a small batch is validated at once, a
\* large one is handed to the ValidationWorker; then a PageCountRunnable is
\* started, with the entity's index in the queue, for every new entity that
\* has no page count yet.
add_files(batch) ==
  /\ N = 0 /\ edits = 0
  /\ page_count_pool = {} /\ validation_worker = << >>
  /\ files' = batch
  /\ LET sync == Len(batch) <= SyncValidationLimit
         q == [k \in DOMAIN batch |->
                 IF sync THEN validate_and_update_queued_pdf(NewQueuedPDF, batch[k])
                 ELSE NewQueuedPDF]
     IN /\ queue' = q
        /\ validation_worker' =
             IF sync THEN << >> ELSE [k \in DOMAIN batch |-> batch[k].path]
        /\ page_count_pool' =
             {[index |-> k, file |-> batch[k]] :
                k \in {j \in DOMAIN batch : q[j].page_count = NoCount}}
  /\ UNCHANGED <<invoked, edits, calls, validated, progress_callback, progress, queue0,
                 svc, _cancelled, _shared_password, pc, passwords, has_callback, i,
                 writer, counters, manifest_entries, result, fs, prompts>>

\* ValidationWorker.run, one iteration (136-140): the worker holds the entity
\* objects themselves, so the result lands in the entity wherever it stands
\* in the queue by now, or in an entity no longer in the queue.
ValidationWorkerStep ==
  /\ validation_worker # << >>
  /\ queue' = [k \in 1..N |->
                 IF files[k].path = Head(validation_worker)
                 THEN validate_and_update_queued_pdf(queue[k], files[k])
                 ELSE queue[k]]
  /\ validation_worker' = Tail(validation_worker)
  /\ UNCHANGED <<files, invoked, page_count_pool, edits, calls, validated,
                 progress_callback, progress, queue0, svc, _cancelled,
                 _shared_password, pc, passwords, has_callback, i, writer, counters,
                 manifest_entries, result, fs, prompts>>

\* PageCountRunnable.run (162-171) and the slot its signal reaches,
\* _on_page_count_ready (829-837): the count goes to queued_files[index].
on_page_count_ready(r) ==
  /\ r \in page_count_pool
  /\ LET probe == probe_pdf(r.file) IN
     queue' = IF probe.is_valid /\ r.index <= N
              THEN [queue EXCEPT ![r.index].page_count = probe.page_count]
              ELSE queue
  /\ page_count_pool' = page_count_pool \ {r}
  /\ UNCHANGED <<files, invoked, validation_worker, edits, calls, validated,
                 progress_callback, progress, queue0, svc, _cancelled,
                 _shared_password, pc, passwords, has_callback, i, writer, counters,
                 manifest_entries, result, fs, prompts>>

Swap(s, a, b) == [s EXCEPT ![a] = s[b], ![b] = s[a]]
RemoveAt(s, k) == SubSeq(s, 1, k - 1) \o SubSeq(s, k + 1, Len(s))

\* The queue positions in the order of their file names.
SortOrder ==
  [j \in 1..N |->
     CHOOSE k \in 1..N :
       Cardinality({m \in 1..N : files[m].path < files[k].path}) + 1 = j]

\* An edit of the queue: the entities move together with their files.
Edit(order) ==
  /\ edits < MaxEdits
  /\ edits' = edits + 1
  /\ files' = [j \in DOMAIN order |-> files[order[j]]]
  /\ queue' = [j \in DOMAIN order |-> queue[order[j]]]
  /\ UNCHANGED <<invoked, page_count_pool, validation_worker, calls, validated,
                 progress_callback, progress, queue0, svc, _cancelled,
                 _shared_password, pc, passwords, has_callback, i, writer, counters,
                 manifest_entries, result, fs, prompts>>

\* _on_move_up (1099-1107) and _on_move_down (1109-1117) on the current row.
on_move_up(row) == row > 1 /\ Edit(Swap([k \in 1..N |-> k], row, row - 1))
on_move_down(row) == row < N /\ Edit(Swap([k \in 1..N |-> k], row, row + 1))

\* _on_remove_selected (1064-1077) with one row selected.
on_remove_selected(row) == Edit(RemoveAt([k \in 1..N |-> k], row))

\* _on_sort_now / _sort_files (929-941), by file name.
sort_files == N > 0 /\ Edit(SortOrder)

QueueNext ==
  \/ \E batch \in QueueBatches : add_files(batch)
  \/ ValidationWorkerStep
  \/ \E r \in page_count_pool : on_page_count_ready(r)
  \/ \E row \in 1..N : on_move_up(row)
  \/ \E row \in 1..N : on_move_down(row)
  \/ \E row \in 1..N : on_remove_selected(row)
  \/ sort_files

SpecQueue == QueueInit /\ [][QueueNext]_vars

\* MainWindow._on_merge (1204-1306) while the ValidationWorker of the last
\* batch may still be running: the MergeWorker is handed queued_files, the
\* entity objects the ValidationWorker holds, with a progress callback, the
\* (empty) passwords and no prompt callback.
on_merge ==
  /\ \E k \in 1..N : is_valid_for_merge(queue[k])
  /\ MergeCall([k \in 1..N |-> None], FALSE, TRUE)

ConcurrentNext ==
  \/ \E batch \in QueueBatches : add_files(batch)
  \/ ValidationWorkerStep
  \/ on_merge
  \/ MergeStart
  \/ BeginEntity
  \/ ProcessEntity
  \/ PostLoop
  \/ MoveOutput

SpecConcurrent == QueueInit /\ [][ConcurrentNext]_vars

\* ------------------------------------------------------------ validate_files
\* MergeService.validate_files (lines 80-113), one step per pass through
\* its loop; pc = "validating" while the call is in the loop and i is the
\* 1-based position of the next entity.
MaxCalls == 4

\* A loop that never looks at the flag.
ValidationStops_Never == FALSE

\* Lines 100-101: the loop's test of the cancellation flag.
ValidationStops == _cancelled

validate_files(pcb) ==
  /\ pc = "idle"
  /\ Len(calls) < MaxCalls
  /\ pc' = "validating"
  /\ i' = 1
  /\ queue0' = queue
  /\ progress_callback' = pcb
  /\ progress' = << >>
  /\ calls' = Append(calls, Call("validate_files"))
  /\ UNCHANGED <<files, invoked, ui, validated, queue, svc, _cancelled, _shared_password,
                 passwords, has_callback, writer, counters, manifest_entries, result,
                 fs, prompts>>

ValidateFilesStep ==
  /\ pc = "validating"
  /\ IF i > N \/ ValidationStops
     THEN \* the loop ends or breaks; line 113 returns the list
          /\ pc' = "idle"
          /\ UNCHANGED <<queue, validated, invoked, i, progress>>
     ELSE /\ progress' = Emit(MergeProgress(i, N, Percent((i - 1) * 100, N), "Validating"))
          /\ \E raises \in ProgressRaises :
               IF raises
               THEN \* lines 103-110 are outside any try: the call ends
                    /\ pc' = "idle"
                    /\ UNCHANGED <<queue, validated, invoked, i>>
               ELSE /\ queue' = [queue EXCEPT ![i] =
                                   validate_and_update_queued_pdf(queue[i], files[i])]
                    /\ validated' = [validated EXCEPT ![i] = Append(@, queue'[i])]
                    /\ invoked' = [invoked EXCEPT ![i] = validate_invokes(files[i])]
                    /\ i' = i + 1
                    /\ UNCHANGED pc
  /\ UNCHANGED <<files, ui, calls, progress_callback, queue0, svc, _cancelled,
                 _shared_password, passwords, has_callback, writer, counters,
                 manifest_entries, result, fs, prompts>>

\* cancel() (lines 67-69) called while the service is idle or validating.
CancelRequest ==
  /\ pc \in {"idle", "validating"}
  /\ ~_cancelled
  /\ Len(calls) < MaxCalls
  /\ _cancelled' = TRUE
  /\ calls' = Append(calls, Call("cancel"))
  /\ UNCHANGED <<files, invoked, ui, validated, progress_callback, progress, queue, queue0,
                 svc, _shared_password, pc, passwords, has_callback, i, writer, counters,
                 manifest_entries, result, fs, prompts>>

ValidateFilesInit ==
  /\ files \in [1..2 -> {[kind |-> "ok", pages |-> 1], [kind |-> "enc", pages |-> 1]}]
  /\ queue = [k \in DOMAIN files |-> NewQueuedPDF]
  /\ queue0 = queue
  /\ encryption_mode \in EncryptionHandlingMode
  /\ generate_report = FALSE /\ compute_hashes = FALSE
  /\ _cancelled = FALSE
  /\ _shared_password = None
  /\ pc = "idle"
  /\ passwords = [k \in DOMAIN files |-> None]
  /\ has_callback = FALSE
  /\ i = 0
  /\ writer = << >>
  /\ total_pages = 0 /\ merged_count = 0 /\ skipped_count = 0 /\ error_count = 0
  /\ manifest_entries = << >>
  /\ result = NewMergeResult
  /\ dest = "pre" /\ temp = "none" /\ report = "none"
  /\ prompts = << >>
  /\ validated = [k \in DOMAIN files |-> << >>]
  /\ progress_callback = FALSE
  /\ progress = << >>
  /\ calls = << >>
  /\ invoked = [k \in DOMAIN files |-> << >>]
  /\ page_count_pool = {} /\ validation_worker = << >> /\ edits = 0
  /\ report_text = NoReport

ValidateFilesNext ==
  \/ \E pcb \in BOOLEAN : validate_files(pcb)
  \/ ValidateFilesStep
  \/ CancelRequest
  \/ ResetCall
  \/ Len(calls) < MaxCalls /\ MergeCall([k \in 1..N |-> None], FALSE, FALSE)
  \/ MergeStart
  \/ BeginEntity
  \/ ProcessEntity
  \/ PostLoop
  \/ MoveOutput
  \/ Return

SpecValidateFiles == ValidateFilesInit /\ [][ValidateFilesNext]_vars

\* ------------------------------------------------------------ properties
Returned == pc = "done"
Cancelled == Returned /\ result.error_message = "Merge cancelled"
LoopCompleted == i = N + 1
\* Entity k reached Merged in this run.
MergedInRun(k) == queue[k].status = MERGED /\ queue0[k].status # MERGED
\* Entity k was opened by this run and failed.
FailedInRun(k) ==
  /\ is_valid_for_merge(queue0[k])
  /\ queue[k].status \in {ENCRYPTED, CORRUPT, ERROR}

RECURSIVE MergedPages(_)
\* The pages of the entities among the first k that this run merged, in
\* queue order.
MergedPages(k) ==
  IF k = 0 THEN << >>
  ELSE MergedPages(k - 1)
         \o (IF MergedInRun(k)
             THEN PagesOf(k, queue[k].page_count) ELSE << >>)

\* C1: a successful run's total_pages and writer hold exactly the pages of
\* the Merged entities, in queue order and in document order.
C1_OutputIsMergedPages ==
  (Returned /\ result.success) =>
    /\ writer = MergedPages(N)
    /\ result.total_pages = Len(MergedPages(N))

\* C2: after a failed output write the destination is as before the run, the
\* temporary file is gone and the result is a failure.
C2_WriteFailureLeavesDestination ==
  (Returned /\ result.error_message = "Failed to write output") =>
    /\ dest = "pre"
    /\ temp = "none"
    /\ ~result.success

\* C3: once the flag is set at the boundary of entity i, the next step of
\* merge() is the cancelled return and it touches no entity, no manifest entry
\* and no file; a flag set while entity i is being processed lets that entity
\* finish and nothing after it start.  A cancelled run leaves every entity
\* from the boundary on as it was handed in, and no output.
C3_CancelStopsAtBoundary ==
  /\ [][/\ (_cancelled /\ pc = "loop" /\ i <= N) =>
             /\ pc' = "done"
             /\ queue' = queue
             /\ manifest_entries' = manifest_entries
             /\ writer' = writer
             /\ dest' = "pre" /\ temp' = "none" /\ report' = "none"
        /\ (_cancelled /\ pc = "open") =>
             /\ pc' = "loop" /\ i' = i + 1 /\ _cancelled'
             /\ \A k \in (i + 1)..N : queue'[k] = queue[k]
             /\ Len(manifest_entries') = i
             /\ dest' = "pre" /\ temp' = "none" /\ report' = "none"]_vars
  /\ [](Cancelled =>
          /\ \A k \in i..N : queue[k] = queue0[k]
          /\ \A m \in 1..Len(manifest_entries) : manifest_entries[m].index < i
          /\ \A m \in 1..Len(writer) : writer[m][1] < i
          /\ dest = "pre" /\ temp = "none" /\ report = "none")

C3_Witness ==
  /\ Cancelled /\ N = 2 /\ i = 2
  /\ queue[1].status = MERGED
  /\ queue[2] = queue0[2] /\ is_valid_for_merge(queue[2])

\* C4: a cancelled run returns a failure with the cancellation message, no
\* output, and the manifest entries of the i-1 entities processed so far.
C4_CancelledResultHasManifest ==
  Cancelled =>
    /\ ~result.success
    /\ dest = "pre"
    /\ Len(result.manifest_entries) = i - 1
    /\ result.manifest_entries = manifest_entries

\* C5: a run that is not cancelled, in which one entity failed at merge time
\* and another merged, processed every entity, got as far as writing the
\* output, and with the output in place returns success with N manifest
\* entries.
C5_PartialFailureIsolated ==
  (/\ Returned /\ ~Cancelled
   /\ \E k \in 1..N : FailedInRun(k)
   /\ \E k \in 1..N : MergedInRun(k)) =>
    /\ \A k \in 1..N : queue[k].status \notin {PENDING, READY, PROCESSING}
    /\ result.success \/ result.error_message = "Failed to write output"
    /\ dest = "new" =>
         /\ result.success
         /\ Len(result.manifest_entries) = N

C5_Witness ==
  /\ Returned /\ result.success /\ N = 2 /\ dest = "new"
  /\ FailedInRun(1) /\ queue[1].status = CORRUPT
  /\ MergedInRun(2)
  /\ Len(result.manifest_entries) = 2

\* C6: while the loop runs the manifest has one entry per entity already
\* handled; when it has run to completion there are N entries, the entry at
\* position k carries index k and the status string of entity k.
C6_OneManifestEntryPerEntity ==
  /\ pc \in {"loop", "open"} => Len(manifest_entries) = i - 1
  /\ LoopCompleted =>
       /\ Len(manifest_entries) = N
       /\ \A k \in 1..N :
            /\ manifest_entries[k].index = k
            /\ manifest_entries[k].status = manifest_status(queue[k])

C6_Witness ==
  /\ LoopCompleted /\ N = 2
  /\ queue0[1].status = SKIPPED
  /\ MergedInRun(2)
  /\ manifest_entries[2].index = 2 /\ manifest_entries[2].status = "Merged"

\* C7: a run that is not cancelled succeeds exactly when some entity reached
\* Merged and the output is in place.
C7_SuccessIffMergedAndWritten ==
  (Returned /\ ~Cancelled) =>
    (result.success <=> ((\E k \in 1..N : MergedInRun(k)) /\ dest = "new"))

\* A success despite a per-file failure and a failed report write.
C7_Witness ==
  /\ Returned /\ result.success
  /\ \E k \in 1..N : FailedInRun(k)
  /\ generate_report /\ report = "failed"

\* The entities this run counted as skipped and as errors.
SkippedInRun ==
  {k \in 1..N : ~is_valid_for_merge(queue0[k])
                  \/ (FailedInRun(k) /\ queue[k].status = ENCRYPTED)}
ErrorsInRun ==
  {k \in 1..N : FailedInRun(k) /\ queue[k].status \in {CORRUPT, ERROR}}

Captures(ans) == ~ans.cancelled /\ ans.use_for_all

NeedsPrompt(k) ==
  /\ is_valid_for_merge(queue0[k])
  /\ OpenOutcome(files[k]) = "opened"
  /\ reader_is_encrypted(files[k])
  /\ passwords[k] = None

RECURSIVE PromptPositions(_)
PromptPositions(k) ==
  IF k = 0 THEN << >>
  ELSE PromptPositions(k - 1) \o (IF NeedsPrompt(k) THEN <<k>> ELSE << >>)

C11_SkipNeverPrompts ==
  /\ \A shared \in Passwords \cup {None}, cb \in BOOLEAN, ans \in Answers :
       LET r == get_password_for_file(SKIP, shared, None, cb, ans)
       IN r.password = None /\ ~r.prompted /\ r.shared = shared
  /\ encryption_mode = SKIP =>
       /\ prompts = << >>
       /\ \A k \in 1..(i - 1) :
            NeedsPrompt(k) =>
              /\ queue[k].status = ENCRYPTED
              /\ queue[k].skip_reason = "skipped"

C11_Witness ==
  /\ encryption_mode = SKIP /\ has_callback /\ LoopCompleted /\ N = 2
  /\ files[1].kind = "enc" /\ queue0[1].status = PENDING /\ passwords[1] = None
  /\ queue[1].status = ENCRYPTED
  /\ files[2].kind = "enc" /\ passwords[2] = "good" /\ MergedInRun(2)
  /\ prompts = << >>

\* C12: an entity with a supplied password is never prompted for, in any
\* mode; its processing leaves the cached shared password as it was and uses
\* the supplied value, not the cached one: it merges only with a supplied
\* password that opens the file and is skipped as Encrypted with one that
\* does not.
C12_SuppliedPasswordWins ==
  /\ [](\A j \in 1..Len(prompts) : passwords[prompts[j].position] = None)
  /\ [][(pc = "open" /\ pc' = "loop" /\ passwords[i] # None) =>
          /\ prompts' = prompts
          /\ _shared_password' = _shared_password
          /\ queue'[i].skip_reason # "skipped"
          /\ queue'[i].status = MERGED => passwords[i] = "good"
          /\ passwords[i] = "bad" => queue'[i].status = ENCRYPTED]_vars

C12_Witness ==
  /\ encryption_mode = SINGLE_PASSWORD /\ _shared_password = "good"
  /\ has_callback /\ LoopCompleted /\ N = 2
  /\ files[1].kind = "enc" /\ passwords[1] = "bad"
  /\ queue[1].status = ENCRYPTED /\ queue[1].skip_reason = "password failed"
  /\ files[2].kind = "enc" /\ passwords[2] = None /\ MergedInRun(2)
  /\ prompts = << >>

C14_EncryptedSkipReasons ==
  [][(pc = "open" /\ pc' = "loop" /\ queue'[i].status = ENCRYPTED) =>
       /\ queue'[i].skip_reason \in {"no password", "wrong password", "decrypt error"}
       /\ (encryption_mode = SKIP /\ passwords[i] = None) =>
            queue'[i].skip_reason = "no password"
       /\ passwords[i] # None => queue'[i].skip_reason # "no password"
       /\ skipped_count' = skipped_count + 1
       /\ error_count' = error_count
       /\ writer' = writer /\ total_pages' = total_pages]_vars

\* C15: in SkipEncrypted mode the queue [document of p pages, encrypted
\* document without a password, corrupt file], read and written without an
\* I/O failure and not cancelled, gives success with merged 1, skipped 1,
\* error 1, total_pages p and the manifest statuses "Merged", "Encrypted - no
\* password", "Skipped - corrupt/unreadable" in this order.
C15_ScenarioResult ==
  (Returned /\ ~Cancelled /\ MergedInRun(1) /\ dest = "new") =>
    /\ result.success
    /\ result.merged_count = 1
    /\ result.skipped_count = 1
    /\ result.error_count = 1
    /\ result.total_pages = files[1].pages
    /\ [k \in 1..Len(result.manifest_entries) |-> result.manifest_entries[k].status]
         = <<"Merged", "Encrypted - no password", "Skipped - corrupt/unreadable">>
    /\ [k \in 1..Len(result.manifest_entries) |-> result.manifest_entries[k].index]
         = <<1, 2, 3>>

\* C16: in a result that carries the counts, every entity has a manifest
\* entry and skipped_count counts the entities that were not Pending or Ready
\* at their turn, those pre-marked Skipped excepted, together with the
\* encrypted entities skipped at merge time.
C16_PreSkippedNotCounted ==
  (Returned /\ (result.success \/ result.error_message = "No files could be merged")) =>
    /\ Len(result.manifest_entries) = N
    /\ result.skipped_count =
         Cardinality({k \in 1..N :
                        \/ /\ ~is_valid_for_merge(queue0[k])
                           /\ queue0[k].status # SKIPPED
                        \/ FailedInRun(k) /\ queue[k].status = ENCRYPTED})

\* The statuses that end an entity's part in a run.
TerminalStatuses == {MERGED, SKIPPED, ENCRYPTED, CORRUPT, NOT_PDF, ERROR}

\* C17: an entity handed to merge() with a terminal status keeps its status,
\* skip reason, status message and page count throughout the run, has no
\* page in the writer, and has exactly one manifest entry once the loop has
\* passed it; only Pending and Ready are valid for merge.
C17_TerminalStatusKept ==
  /\ \A s \in FileStatus :
       is_valid_for_merge([NewQueuedPDF EXCEPT !.status = s])
         <=> s \in {PENDING, READY}
  /\ \A k \in 1..N :
       queue0[k].status \in TerminalStatuses =>
         /\ queue[k].status = queue0[k].status
         /\ queue[k].skip_reason = queue0[k].skip_reason
         /\ queue[k].status_message = queue0[k].status_message
         /\ queue[k].page_count = queue0[k].page_count
         /\ \A m \in 1..Len(writer) : writer[m][1] # k
         /\ Cardinality({m \in 1..Len(manifest_entries) :
                           manifest_entries[m].index = k})
              = IF k < i THEN 1 ELSE 0

C17_Witness ==
  /\ LoopCompleted /\ N = 2
  /\ queue0[1].status = MERGED /\ queue[1].status = MERGED
  /\ MergedInRun(2)
  /\ Len(manifest_entries) = 2 /\ manifest_entries[1].status = "Merged"
  /\ writer = PagesOf(2, files[2].pages)

\* The status changes merge() makes.
StatusEdges ==
  ({PENDING, READY} \X {PROCESSING})
    \cup ({PROCESSING} \X {MERGED, ENCRYPTED, CORRUPT, ERROR})

\* C18: every change of an entity's status during merge() is one of
\* {Pending, Ready} -> Processing and Processing -> Merged, Encrypted,
\* Corrupt, Error; Pending, Ready, Skipped and NotADocument are never
\* assigned.
C18_StatusEdges ==
  [][\A k \in 1..N :
       queue'[k].status # queue[k].status =>
         <<queue[k].status, queue'[k].status>> \in StatusEdges]_vars

\* A document validated as Ready that the merge finds encrypted.
C18_Witness ==
  /\ LoopCompleted
  /\ files[1].kind = "encEmpty" /\ queue0[1].status = READY
  /\ queue[1].status = ENCRYPTED

\* C19: every validation run of an entity over its unmodified file leaves the
\* status and the page count the first run left.
C19_ValidationIdempotent ==
  \A k \in 1..N :
    \A a, b \in 1..Len(validated[k]) :
      /\ validated[k][a].status = validated[k][b].status
      /\ validated[k][a].page_count = validated[k][b].page_count

\* Twice validated: a good document under an entity that was Ready, without
\* a page count, before.
C19_Witness ==
  /\ Len(validated[1]) = 2
  /\ files[1].kind = "ok"
  /\ queue0[1].status = READY /\ queue0[1].page_count = NoCount
  /\ queue[1].status = READY /\ queue[1].page_count = files[1].pages

\* The manifest text of a status, reason and message, with the text for
\* NotADocument left open.
StatedManifestStatus(status, reason, message, notADocument) ==
  CASE status = MERGED -> "Merged"
    [] status = SKIPPED ->
         IF reason = "" THEN "Skipped - user choice" ELSE "Skipped - " \o reason
    [] status = ENCRYPTED ->
         IF reason = "" THEN "Encrypted - skipped" ELSE "Encrypted - " \o reason
    [] status = CORRUPT -> "Skipped - corrupt/unreadable"
    [] status = NOT_PDF -> notADocument
    [] status = ERROR ->
         IF message = "" THEN "Error - unknown" ELSE "Error - " \o message
    [] status \in {PENDING, READY} -> "Pending"

\* C20 as stated: the manifest status of an entity is the stated text of its
\* status, skip reason and status message, with "Skipped - not a document"
\* for NotADocument.
C20_ManifestStatusAsStated ==
  \A k \in 1..Len(manifest_entries) :
    queue[k].status # PROCESSING =>
      manifest_entries[k].status =
        StatedManifestStatus(queue[k].status, queue[k].skip_reason,
                             queue[k].status_message, "Skipped - not a document")

\* C20 amended: the same, with "Skipped - not a PDF" for NotADocument.
C20_ManifestStatus ==
  \A k \in 1..Len(manifest_entries) :
    queue[k].status # PROCESSING =>
      manifest_entries[k].status =
        StatedManifestStatus(queue[k].status, queue[k].skip_reason,
                             queue[k].status_message, "Skipped - not a PDF")

C20_Witness ==
  /\ Len(manifest_entries) = 1
  /\ queue[1].status = NOT_PDF /\ queue[1].skip_reason = "duplicate"
  /\ queue[1].page_count = 1
  /\ manifest_entries[1].status = "Skipped - not a PDF"

PercentLeq(a, b) == a.num * b.den <= b.num * a.den

\* The updates of the per-file loop.
LoopUpdates == SelectSeq(progress, LAMBDA u : u.status_message = "Merging")

\* The number of entities whose processing has begun.
Begun ==
  IF i = 0 THEN 0
  ELSE IF pc = "open" \/ (pc = "raised" /\ dest = "pre") THEN i
  ELSE i - 1

\* C21: the progress callback has been given one update for each entity
\* begun, in queue order, with current_index its 1-based position and at most
\* 80 percent; the percent values never decrease; 100 appears only in the
\* last update, once the output is in place.  The update for an entity comes
\* while the entity is still as it was handed in.
C21_ProgressUpdates ==
  /\ [](/\ ~progress_callback => progress = << >>
        /\ progress_callback =>
             /\ Len(LoopUpdates) = Begun
             /\ \A j \in 1..Len(LoopUpdates) :
                  /\ progress[j] = LoopUpdates[j]
                  /\ progress[j].current_index = j
                  /\ progress[j].total_files = N
                  /\ PercentLeq(progress[j].percent_complete, Percent(80, 1))
             /\ \A j \in 1..(Len(progress) - 1) :
                  PercentLeq(progress[j].percent_complete,
                             progress[j + 1].percent_complete)
             /\ \A j \in 1..Len(progress) :
                  PercentLeq(Percent(100, 1), progress[j].percent_complete) =>
                    /\ j = Len(progress)
                    /\ dest = "new"
                    /\ pc \in {"done", "raised"}
                    /\ pc = "done" => result.success)
  /\ [][(/\ Len(progress') = Len(progress) + 1
         /\ progress'[Len(progress')].status_message = "Merging") =>
          LET k == progress'[Len(progress')].current_index
          IN /\ queue[k] = queue0[k]
             /\ pc' = "raised" => queue' = queue]_vars

C21_Witness ==
  /\ Returned /\ result.success /\ N = 2
  /\ Len(progress) = 4
  /\ progress[1].percent_complete = Percent(80, 2)
  /\ progress[2].percent_complete = Percent(160, 2)
  /\ progress[3].percent_complete = Percent(90, 1)
  /\ progress[4].percent_complete = Percent(100, 1)
  /\ ~is_valid_for_merge(queue0[1]) /\ MergedInRun(2)

\* C22: merge() never raises to its caller; every failure path, a failing
\* callback included, returns a MergeResult with success = false and a
\* non-empty error message.
C22_MergeNeverRaises ==
  /\ pc # "raised"
  /\ (Returned /\ ~result.success) => result.error_message # ""

\* C23: a failed report write leaves the outcome as it is when the report is
\* written: the output stays at the destination and merge() returns success
\* with the run's counts, total pages and manifest (the only other way out
\* is the final progress update raising, which does not depend on the
\* report).
C23_ReportFailureNonFatal ==
  report = "failed" =>
    /\ dest = "new"
    /\ pc \in {"done", "raised"}
    /\ pc = "done" =>
         /\ result.success
         /\ result.error_message = ""
         /\ result.merged_count = merged_count
         /\ result.skipped_count = skipped_count
         /\ result.error_count = error_count
         /\ result.total_pages = total_pages
         /\ result.manifest_entries = manifest_entries
    /\ pc = "raised" =>
         /\ progress # << >>
         /\ progress[Len(progress)].percent_complete = Percent(100, 1)

\* A two-entity run, one merged and one failed, whose report write failed.
C23_Witness ==
  /\ Returned /\ generate_report /\ report = "failed"
  /\ result.success /\ dest = "new"
  /\ N = 2 /\ result.merged_count = 1 /\ result.error_count = 1
  /\ Len(result.manifest_entries) = 2

\* The position in the call log of the latest call of merge() (0: none).
LastMerge ==
  IF Runs = 0 THEN 0
  ELSE CHOOSE m \in DOMAIN calls :
         /\ calls[m].op = "merge"
         /\ \A c \in (m + 1)..Len(calls) : calls[c].op # "merge"

\* The current run is one that was started right after a reset().
RunAfterReset == LastMerge > 1 /\ calls[LastMerge - 1].op = "reset"

\* No prompt of this run before position k left a password cached.
NothingCapturedBefore(k) ==
  \A j \in 1..Len(prompts) : prompts[j].position < k => ~Captures(prompts[j].answer)

\* C24: after reset(), whatever the state before, the flag is clear and no
\* shared password is cached; the run that follows is uncancelled until
\* cancel() is called again, and in SharedPassword mode it prompts for an
\* encrypted entity instead of reusing the password of the run before.
C24_ResetClears ==
  /\ (calls # << >> /\ calls[Len(calls)].op = "reset") =>
        ~_cancelled /\ _shared_password = None
  /\ (RunAfterReset /\ pc \in {"loop", "open", "move", "done"}) =>
        /\ (\A c \in LastMerge..Len(calls) : calls[c].op # "cancel") => ~_cancelled
        /\ (encryption_mode = SINGLE_PASSWORD /\ has_callback) =>
             \A k \in 1..N :
               (k < i /\ NeedsPrompt(k) /\ NothingCapturedBefore(k)) =>
                 \E j \in 1..Len(prompts) : prompts[j].position = k

\* A first run cached a password for all and was cancelled (or a cancel came
\* too late to stop it); after reset() the second run prompted again.
C24_Witness ==
  /\ RunAfterReset /\ Returned /\ encryption_mode = SINGLE_PASSWORD
  /\ \E c \in 1..(LastMerge - 1) : calls[c].op = "cancel" /\ calls[c].at = "open"
  /\ files[1].kind = "enc" /\ files[2].kind = "enc"
  /\ queue0[1].status = MERGED /\ queue0[2].status = PENDING
  /\ Len(prompts) = 1 /\ prompts[1].position = 2
  /\ MergedInRun(2)

\* A call of cancel() made during the current run before the last entity's
\* boundary check: after merge() was invoked, at a loop boundary, or while an
\* entity other than the last is processed.
CancelledInTime ==
  \E c \in (LastMerge + 1)..Len(calls) :
    /\ calls[c].op = "cancel"
    /\ \/ calls[c].at = "invoked"
       \/ calls[c].at = "loop" /\ calls[c].index <= N
       \/ calls[c].at = "open" /\ calls[c].index < N

\* C25: a cancel() made after merge() was invoked and before the last
\* entity's boundary check is never lost: the run (over a queue with an
\* entity to merge) returns the cancelled result and writes no output.
C25_CancelNeverLost ==
  (Returned /\ LastMerge > 0 /\ CancelledInTime
     /\ \E k \in 1..N : is_valid_for_merge(queue0[k])) =>
    /\ Cancelled
    /\ dest = "pre"

\* The calls of cancel() made during the current run.
RunCancels ==
  {c \in (LastMerge + 1)..Len(calls) : calls[c].op = "cancel"}

\* C26: a cancel() made while entity k is being processed does not interrupt
\* it: the step that finishes entity k gives it a terminal status, its
\* manifest entry and its pages as without the cancel, and the run then
\* returns the cancelled result at the next boundary with entity k + 1 as it
\* was; a cancel() made only after the last entity's boundary check does not
\* stop the run from reaching its write phase and its ordinary result.
C26_CancelMidProcessing ==
  /\ [][(pc = "open" /\ pc' = "loop" /\ _cancelled) =>
          /\ queue'[i].status \in {MERGED, ENCRYPTED, CORRUPT, ERROR}
          /\ Len(manifest_entries') = Len(manifest_entries) + 1
          /\ manifest_entries'[Len(manifest_entries')].index = i
          /\ queue'[i].status = MERGED =>
               /\ writer' = writer \o PagesOf(i, files[i].pages)
               /\ merged_count' = merged_count + 1
          /\ _cancelled']_vars
  /\ [][(pc = "loop" /\ i <= N /\ _cancelled) =>
          /\ pc' = "done" /\ result' = ResultCancelled(result)
          /\ queue' = queue /\ manifest_entries' = manifest_entries
          /\ writer' = writer /\ dest' = dest /\ temp' = temp]_vars
  /\ []((Returned /\ LastMerge > 0 /\ RunCancels # {}
           /\ \A c \in RunCancels :
                \/ calls[c].at = "open" /\ calls[c].index = N
                \/ calls[c].at = "loop" /\ calls[c].index > N
                \/ calls[c].at = "move") =>
          /\ ~Cancelled
          /\ merged_count > 0 =>
               \/ result.success /\ dest = "new"
               \/ result.error_message = "Failed to write output")

\* Cancelled while the first of two entities was being merged: its page is
\* in the writer, its manifest entry is there, the second was not started.
C26_Witness ==
  /\ Cancelled /\ N = 2
  /\ \E c \in RunCancels : calls[c].at = "open" /\ calls[c].index = 1
  /\ MergedInRun(1) /\ Len(writer) = files[1].pages
  /\ Len(result.manifest_entries) = 0 /\ Len(manifest_entries) = 1
  /\ queue[2] = queue0[2] /\ is_valid_for_merge(queue[2])
  /\ dest = "pre"

\* Cancelled while the last entity was being merged: the output was written.
C26_WitnessLate ==
  /\ Returned /\ result.success /\ dest = "new" /\ _cancelled
  /\ \E c \in RunCancels : calls[c].at = "open" /\ calls[c].index = N

\* C27 as stated: a validated entity whose file made the codec fail, for a
\* reason other than encryption or a missing file, is Corrupt.
C27_CodecErrorIsCorruptAsStated ==
  \A k \in 1..N :
    (Len(validated[k]) > 0 /\ files[k].kind \in {"corrupt", "faulty"}) =>
      queue[k].status = CORRUPT

\* C27 amended: the codec's malformed-document error gives Corrupt with the
\* text "PDF is corrupt or unreadable"; any other codec error that is neither
\* an encryption nor a missing file gives Error with the text "Error reading
\* PDF: <exception type>"; neither gives Encrypted or Ready, and the page
\* count is left as it was.
C27_CodecErrorClassified ==
  \A k \in 1..N :
    Len(validated[k]) > 0 =>
      /\ files[k].kind = "corrupt" =>
           /\ queue[k].status = CORRUPT
           /\ queue[k].status_message = "PDF is corrupt or unreadable"
           /\ queue[k].page_count = queue0[k].page_count
      /\ files[k].kind = "faulty" =>
           /\ queue[k].status = ERROR
           /\ queue[k].status_message = "Error reading PDF: ValueError"
           /\ queue[k].page_count = queue0[k].page_count

\* A fresh entity validated over a file the codec fails on unexpectedly.
C27_Witness ==
  /\ Len(validated[1]) > 0 /\ files[1].kind = "faulty"
  /\ queue0[1].status = PENDING /\ queue[1].status = ERROR

\* C28: validation short-circuits in order.  A missing file ends in Error
\* "File not found" after the existence check alone; an existing file without
\* the magic marker ends in NotADocument after the existence and signature
\* checks, the codec not invoked; the codec is invoked for the files that
\* pass both checks and for no other; and a probe that succeeds leaves the
\* entity Ready with the document's page count.
C28_ValidationShortCircuits ==
  \A k \in 1..N :
    Len(validated[k]) > 0 =>
      /\ files[k].kind = "missing" =>
           /\ invoked[k] = <<"exists">>
           /\ queue[k].status = ERROR /\ queue[k].status_message = "File not found"
      /\ files[k].kind = "notpdf" =>
           /\ invoked[k] = <<"exists", "is_pdf_file">>
           /\ queue[k].status = NOT_PDF
      /\ (\E c \in DOMAIN invoked[k] : invoked[k][c] = "codec") <=>
           files[k].kind \notin {"missing", "notpdf"}
      /\ files[k].kind \notin {"missing", "notpdf"} =>
           /\ invoked[k][1] = "exists" /\ invoked[k][2] = "is_pdf_file"
           /\ \A c \in DOMAIN invoked[k] : invoked[k][c] = "codec" => c > 2
      /\ files[k].kind \in {"ok", "encEmpty"} =>
           /\ queue[k].status = READY
           /\ queue[k].page_count = files[k].pages
           /\ queue[k].status_message = ""

\* A missing file and a file without the marker were each validated.
C28_Witness ==
  /\ Len(validated[1]) > 0 /\ files[1].kind = "notpdf"
  /\ queue0[1].status = PENDING /\ queue[1].status = NOT_PDF
  /\ invoked[1] = <<"exists", "is_pdf_file">>

\* C29: background validation and lazy page-count probing write only into
\* the entity whose file was probed, whatever edits the queue went through
\* meanwhile: a page count an entity carries is the page count of its own
\* file, and a validated entity has the status its own file gives it.
C29_ProbeWritesOwnEntity ==
  \A k \in 1..N :
    /\ queue[k].page_count # NoCount => queue[k].page_count = files[k].pages
    /\ queue[k].status # PENDING =>
         queue[k].status = validate_and_update_queued_pdf(NewQueuedPDF, files[k]).status

\* C30: an entity that ends in Error at merge time carries as status message
\* the first 50 characters of the error text, so at most 50 characters, and
\* the step adds one to the error counter and nothing to the skipped and
\* merged counters.
C30_ErrorMessageTruncated ==
  [][(pc = "open" /\ pc' = "loop" /\ queue'[i].status = ERROR) =>
       /\ Len(queue'[i].status_message) <= 50
       /\ \E text \in ErrorTexts :
            queue'[i].status_message =
              SubSeq(text, 1, IF Len(text) < 50 THEN Len(text) ELSE 50)
       /\ error_count' = error_count + 1
       /\ skipped_count' = skipped_count
       /\ merged_count' = merged_count]_vars

\* A run whose second entity failed with a text of 51 characters: the
\* message is its first 50, the failure is counted as an error.
C30_Witness ==
  /\ Returned /\ result.success /\ N = 2
  /\ MergedInRun(1)
  /\ queue0[2].status = PENDING /\ queue[2].status = ERROR
  /\ queue[2].status_message = "codec failure while reading the page tree: bad xrf"
  /\ Len(queue[2].status_message) = 50
  /\ result.error_count = 1 /\ result.skipped_count = 0

\* C31: with hashing enabled, an entity whose digest cannot be computed goes
\* through its file boundary as it would without the failure: Pending or
\* Ready, it becomes Processing and is opened; otherwise it gets its manifest
\* entry and is counted as skipped; in both cases nothing but the hash
\* differs, which stays absent.  Its final status is the one its file gives
\* it in a run without hashing.
C31_HashFailureNonFatal ==
  /\ [][(/\ pc = "loop" /\ i <= N /\ ~_cancelled /\ pc' # "raised"
         /\ calls' = calls
         /\ compute_hashes /\ compute_sha256_fails(files[i])) =>
          /\ queue'[i].sha256_hash = queue[i].sha256_hash
          /\ is_valid_for_merge(queue[i]) =>
               /\ queue' = [queue EXCEPT ![i].status = PROCESSING]
               /\ pc' = "open" /\ i' = i
               /\ manifest_entries' = manifest_entries
               /\ skipped_count' = skipped_count
          /\ ~is_valid_for_merge(queue[i]) =>
               /\ queue' = queue
               /\ pc' = "loop" /\ i' = i + 1
               /\ manifest_entries' =
                    Append(manifest_entries, create_manifest_entry(i, queue[i]))
               /\ skipped_count' = skipped_count + 1
          /\ error_count' = error_count /\ merged_count' = merged_count
          /\ writer' = writer /\ total_pages' = total_pages]_vars
  /\ [](\A k \in 1..N :
          (/\ pc \in {"loop", "open", "move", "done"} /\ k < i
           /\ files[k].kind = "missing" /\ is_valid_for_merge(queue0[k])) =>
            /\ queue[k].status = ERROR
            /\ queue[k].skip_reason = "error"
            /\ queue[k].sha256_hash = None)

\* A hashing run that merged its first entity, hash recorded, and whose
\* second entity's file could not be read for hashing.
C31_Witness ==
  /\ Returned /\ result.success /\ compute_hashes /\ N = 2
  /\ MergedInRun(1) /\ queue[1].sha256_hash = "sha256"
  /\ files[2].kind = "missing" /\ is_valid_for_merge(queue0[2])
  /\ queue[2].status = ERROR /\ queue[2].sha256_hash = None
  /\ result.merged_count = 1 /\ result.error_count = 1

\* C32: a rendered manifest block shows the unknown-page-count marker if and
\* only if the entry's page count is absent; an entry with a known page
\* count, 0 included, shows that number.
C32_UnknownMarkerIffAbsent ==
  \A j \in DOMAIN report_text.manifest :
    LET count == manifest_entries[j].page_count
        shown == report_text.manifest[j].pages
    IN /\ shown = "?" <=> count = NoCount
       /\ count # NoCount => shown = ToString(count)

\* C33: when background validation and merge() have both finished on the
\* same queue, each entity holds the status the merge gave it: an entity the
\* manifest records as merged is Merged.
C33_MergeStatusSurvivesValidation ==
  (pc = "done" /\ validation_worker = << >>) =>
    \A j \in DOMAIN manifest_entries :
      manifest_entries[j].status = "Merged" =>
        queue[manifest_entries[j].index].status = MERGED


\* The entities the run reached before it returned: all of them, or those
\* before the boundary at which it was cancelled.
ReachedInRun == {k \in 1..N : Cancelled => k < i}

\* C34: on every return from merge(), write failure and cancellation
\* included, the result's merged, skipped and error counts are the numbers of
\* entities the run left merged, skipped and in error.
C34_ResultCountsOnEveryReturn ==
  Returned =>
    /\ result.merged_count = Cardinality({k \in ReachedInRun : MergedInRun(k)})
    /\ result.skipped_count = Cardinality(SkippedInRun \cap ReachedInRun)
    /\ result.error_count = Cardinality(ErrorsInRun \cap ReachedInRun)

\* The same on the returns that carry the counters (success, nothing merged,
\* no valid file).
C34_CountsOnCompletedReturns ==
  (Returned /\ ~Cancelled /\ result.error_message # "Failed to write output") =>
    /\ result.merged_count = Cardinality({k \in ReachedInRun : MergedInRun(k)})
    /\ result.skipped_count = Cardinality(SkippedInRun \cap ReachedInRun)
    /\ result.error_count = Cardinality(ErrorsInRun \cap ReachedInRun)


\* C35: when merge() returns, whatever the outcome, no entity is Processing:
\* every entity the run marked Processing is Merged, Encrypted, Corrupt or
\* Error.
C35_NoProcessingAtReturn ==
  Returned =>
    \A k \in 1..N :
      /\ queue[k].status # PROCESSING
      /\ (is_valid_for_merge(queue0[k]) /\ k < i) =>
           queue[k].status \in {MERGED, ENCRYPTED, CORRUPT, ERROR}

\* A run that merged one entity, found another corrupt and then failed to
\* write its output.
C35_Witness ==
  /\ Returned /\ result.error_message = "Failed to write output"
  /\ \E k \in 1..N : MergedInRun(k)
  /\ \E k \in 1..N : FailedInRun(k) /\ queue[k].status = CORRUPT

\* A cancelled run that had marked and finished its first entity.
C35_WitnessCancelled ==
  /\ Cancelled /\ i = 2 /\ N = 2
  /\ is_valid_for_merge(queue0[1]) /\ is_valid_for_merge(queue0[2])
  /\ queue[1].status = ERROR


\* C36: whenever the per-file loop has run to completion, the three counters
\* add up to the queue length, which is the number of manifest entries, and
\* each entity is counted in exactly one of them.
C36_CountersPartitionQueue ==
  LoopCompleted =>
    /\ merged_count + skipped_count + error_count = N
    /\ Len(manifest_entries) = N
    /\ merged_count = Cardinality({k \in 1..N : MergedInRun(k)})
    /\ skipped_count = Cardinality(SkippedInRun)
    /\ error_count = Cardinality(ErrorsInRun)
    /\ \A k \in 1..N :
         /\ MergedInRun(k) \/ k \in SkippedInRun \/ k \in ErrorsInRun
         /\ ~(MergedInRun(k) /\ k \in SkippedInRun)
         /\ ~(MergedInRun(k) /\ k \in ErrorsInRun)
         /\ ~(k \in SkippedInRun /\ k \in ErrorsInRun)

\* A completed loop over two entities, one skipped as encrypted in the run
\* and one merged.
C36_Witness ==
  /\ LoopCompleted /\ N = 2
  /\ FailedInRun(1) /\ queue[1].status = ENCRYPTED
  /\ MergedInRun(2)
  /\ merged_count = 1 /\ skipped_count = 1 /\ error_count = 0

\* A completed loop with one entity excluded before the run and one that
\* failed with an error.
C36_WitnessPreMarked ==
  /\ LoopCompleted /\ N = 2
  /\ ~is_valid_for_merge(queue0[1])
  /\ FailedInRun(2) /\ queue[2].status = ERROR
  /\ skipped_count = 1 /\ error_count = 1


\* C37: merge() called again on the same entities after a run whose loop
\* completed, with no validation in between, processes nothing: it returns
\* at once without success, writes no output and no report, calls no
\* callback and leaves every entity's status, page count, skip reason and
\* hash as they were.
C37_SecondMergeProcessesNothing ==
  [][(pc = "invoked" /\ Runs > 1 /\ LoopCompleted /\ pc' # pc) =>
       /\ pc' = "done"
       /\ ~result'.success
       /\ result'.merged_count = 0
       /\ dest' = dest /\ temp' = temp
       /\ report' = report /\ report_text' = report_text
       /\ prompts' = << >> /\ progress' = << >>
       /\ \A k \in 1..N :
            /\ queue'[k].status = queue[k].status
            /\ queue'[k].page_count = queue[k].page_count
            /\ queue'[k].skip_reason = queue[k].skip_reason
            /\ queue'[k].sha256_hash = queue[k].sha256_hash]_vars

\* The second call has returned after a first run that merged one entity,
\* skipped the other and wrote its output.
C37_Witness ==
  /\ Runs = 2 /\ Returned /\ LoopCompleted
  /\ calls[Len(calls)].op = "merge"
  /\ result.error_message = "No valid PDF files to merge"
  /\ dest = "new"
  /\ \E k \in 1..N : queue[k].status = MERGED
  /\ \E k \in 1..N : queue[k].status = ENCRYPTED
  /\ queue = queue0


\* C38: the report is written only by the step that has put the output in
\* place at the destination, and it renders the complete manifest of the
\* run; a run that is cancelled, merges nothing or fails to write its output
\* writes no report.
C38_ReportAfterOutput ==
  /\ [][(report' # report \/ report_text' # report_text) =>
          /\ generate_report
          /\ pc = "move" /\ temp = "staged"
          /\ dest' = "new" /\ temp' = "none"
          /\ LoopCompleted /\ merged_count > 0]_vars
  /\ [](report = "written" =>
          /\ dest = "new"
          /\ Len(report_text.manifest) = N
          /\ \A j \in 1..N :
               report_text.manifest[j] = to_manifest_line(manifest_entries[j], compute_hashes)
          /\ report_text.summary =
               <<merged_count, skipped_count, error_count, total_pages>>)
  /\ []((Returned /\ ~result.success) =>
          report = "none" /\ report_text = NoReport)

\* A successful run over two entities, one merged and one not, whose report
\* lists both.
C38_Witness ==
  /\ Returned /\ result.success /\ report = "written" /\ N = 2
  /\ Len(report_text.manifest) = 2
  /\ \E k \in 1..N : MergedInRun(k)
  /\ \E k \in 1..N : FailedInRun(k)

\* A run with reports enabled whose output could not be moved into place.
C38_WitnessWriteFailed ==
  /\ Returned /\ generate_report
  /\ result.error_message = "Failed to write output"
  /\ dest = "partial" /\ report = "none"


\* The last call in the log is validate_files, or cancel() calls that came
\* in after it: that validation call is running or was the last to run.
LastValidation ==
  IF \E m \in DOMAIN calls : calls[m].op = "validate_files"
  THEN CHOOSE m \in DOMAIN calls :
         /\ calls[m].op = "validate_files"
         /\ \A c \in (m + 1)..Len(calls) : calls[c].op # "validate_files"
  ELSE 0

\* A cancel() precedes call m with no reset() and no merge() in between.
CancelledBefore(m) ==
  \E c \in 1..(m - 1) :
    /\ calls[c].op = "cancel"
    /\ \A d \in (c + 1)..(m - 1) : calls[d].op \notin {"reset", "merge"}

\* C39: validate_files validates the entities in queue order, one position
\* at a time; once it sees the cancellation flag it returns and touches no
\* further entity; it never changes the flag, so a call made after cancel()
\* validates nothing unless reset() or a merge() run came in between.
C39_ValidateFilesHonoursCancel ==
  /\ [][(pc = "validating" /\ calls' = calls) =>
          /\ _cancelled' = _cancelled
          /\ _cancelled => (pc' = "idle" /\ queue' = queue /\ validated' = validated)
          /\ validated' # validated =>
               /\ i' = i + 1
               /\ Len(validated'[i]) = Len(validated[i]) + 1
               /\ \A k \in 1..N : k # i =>
                    queue'[k] = queue[k] /\ validated'[k] = validated[k]
               /\ \A k \in 1..(i - 1) : Len(validated[k]) > Len(validated[i])]_vars
  /\ [][(pc = "idle" /\ pc' = "validating") => _cancelled' = _cancelled]_vars
  /\ []((LastValidation > 0 /\ CancelledBefore(LastValidation)
           /\ \A c \in LastValidation..Len(calls) :
                calls[c].op \in {"validate_files", "cancel"}) =>
          /\ _cancelled
          /\ queue = queue0
          /\ pc = "validating" => i = 1)

\* validate_files was cancelled after it had validated the first entity and
\* has returned: the second entity is as it was added.
C39_Witness ==
  /\ pc = "idle" /\ N = 2 /\ _cancelled
  /\ Len(calls) = 2
  /\ calls[1].op = "validate_files" /\ calls[2].op = "cancel" /\ calls[2].at = "validating"
  /\ Len(validated[1]) = 1 /\ validated[2] = << >>
  /\ queue[1].status # PENDING /\ queue[2] = NewQueuedPDF

\* A validate_files call made after cancel() returned without validating,
\* and one made after the following reset() validated the whole queue.
C39_WitnessAfterReset ==
  /\ pc = "idle" /\ N = 2 /\ Len(calls) = 4
  /\ calls[1].op = "cancel" /\ calls[2].op = "validate_files"
  /\ calls[3].op = "reset" /\ calls[4].op = "validate_files"
  /\ Len(validated[1]) = 1 /\ Len(validated[2]) = 1

\* The same with a merge() run in place of the reset().
C39_WitnessAfterMerge ==
  /\ pc = "idle" /\ N = 2 /\ Len(calls) = 4
  /\ calls[1].op = "cancel" /\ calls[2].op = "validate_files"
  /\ calls[3].op = "merge" /\ calls[4].op = "validate_files"
  /\ ~_cancelled
  /\ Len(validated[1]) = 1 /\ Len(validated[2]) = 1

====
